---------------------------- MODULE Spec2Model ----------------------------
(***************************************************************************)
(* Survey databook generator (survey_databook_api_v3.py).                  *)
(*                                                                         *)
(* Step 1 (clean_and_convert / _parse_questions_from_file) segments a raw  *)
(* survey grid into question records and writes the options artifact;      *)
(* step 2 (SurveyDatabookV2) loads the artifact, maps raw-data columns and *)
(* writes the Output sheet with live formulas; the cuts engine rewrites    *)
(* those formulas; the API layer keeps sessions around the same pipeline.  *)
(*                                                                         *)
(* Text is modelled as TLA+ strings processed character by character.      *)
(* Row and column indices keep the 0-based values of the source (iloc),    *)
(* worksheet rows and columns keep the 1-based values of openpyxl.         *)
(***************************************************************************)
EXTENDS Integers, Sequences, FiniteSets, TLC

(***************************************************************************)
(* Bounds                                                                  *)
(***************************************************************************)
MaxRows == 4
MaxCols == 4
MaxQuestions == 2
\* longest raw-data cell handed to split_multi_select_options
MaxTextLen == 5
\* most respondent rows of the raw data handed to a tabulator
MaxRespondents == 3

(***************************************************************************)
(* Python / pandas values                                                  *)
(***************************************************************************)
\* pandas missing cell (pd.isna) and Python None, kept apart from every text
NaN  == "<NaN>"
None == "<None>"

Ch(s, i) == SubSeq(s, i, i)

DigitChars == {"0", "1", "2", "3", "4", "5", "6", "7", "8", "9"}
UpperChars == "ABCDEFGHIJKLMNOPQRSTUVWXYZ"
LowerChars == "abcdefghijklmnopqrstuvwxyz"

\* str.strip() over the modelled alphabet (the only whitespace is " ")
RECURSIVE LStrip(_)
LStrip(s) == IF Len(s) > 0 /\ Ch(s, 1) = " " THEN LStrip(Tail(s)) ELSE s

RECURSIVE RStrip(_)
RStrip(s) ==
    IF Len(s) > 0 /\ Ch(s, Len(s)) = " "
    THEN RStrip(SubSeq(s, 1, Len(s) - 1))
    ELSE s

Strip(s) == RStrip(LStrip(s))

LowerCh(c) ==
    IF \E i \in 1..26 : Ch(UpperChars, i) = c
    THEN Ch(LowerChars, CHOOSE i \in 1..26 : Ch(UpperChars, i) = c)
    ELSE c

UpperCh(c) ==
    IF \E i \in 1..26 : Ch(LowerChars, i) = c
    THEN Ch(UpperChars, CHOOSE i \in 1..26 : Ch(LowerChars, i) = c)
    ELSE c

\* str.lower() / str.upper()
RECURSIVE Lower(_)
Lower(s) == IF Len(s) = 0 THEN "" ELSE LowerCh(Head(s)) \o Lower(Tail(s))

RECURSIVE Upper(_)
Upper(s) == IF Len(s) = 0 THEN "" ELSE UpperCh(Head(s)) \o Upper(Tail(s))

\* `sub in s`
Contains(s, sub) ==
    \E i \in 1..(Len(s) - Len(sub) + 1) : SubSeq(s, i, i + Len(sub) - 1) = sub

\* positions of the parentheses of s
paren_positions(s) == {i \in 1..Len(s) : Ch(s, i) \in {"(", ")"}}

\* s.startswith(p) / s.endswith(p)
StartsWith(s, p) == Len(s) >= Len(p) /\ SubSeq(s, 1, Len(p)) = p
EndsWith(s, p) ==
    Len(s) >= Len(p) /\ SubSeq(s, Len(s) - Len(p) + 1, Len(s)) = p

\* str.isdigit()
IsDigitStr(s) == Len(s) > 0 /\ \A i \in 1..Len(s) : Ch(s, i) \in DigitChars

\* float(s) succeeds.  Modelled forms: optional sign, digits with at most
\* one ".", and the words nan / inf / infinity; surrounding blanks allowed.
IsFloat(s) ==
    LET t == Strip(s)
        u == IF Len(t) > 0 /\ Ch(t, 1) \in {"+", "-"} THEN Tail(t) ELSE t
        dots == {i \in 1..Len(u) : Ch(u, i) = "."}
    IN  \/ Lower(u) \in {"nan", "inf", "infinity"}
        \/ /\ Len(u) > 0
           /\ \A i \in 1..Len(u) : Ch(u, i) \in DigitChars \cup {"."}
           /\ Cardinality(dots) <= 1
           /\ \E i \in 1..Len(u) : Ch(u, i) \in DigitChars

\* float(s) is finite and f == int(f)
IsIntegralFloat(s) ==
    LET t == Strip(s)
        u == IF Len(t) > 0 /\ Ch(t, 1) \in {"+", "-"} THEN Tail(t) ELSE t
    IN  /\ IsFloat(s)
        /\ Lower(u) \notin {"nan", "inf", "infinity"}
        /\ \A i \in 1..Len(u) :
              (\E j \in 1..(i - 1) : Ch(u, j) = ".") => Ch(u, i) = "0"

\* str(int(float(s))) for an integral s: sign, no leading zeros, no fraction
RECURSIVE DropLeadingZeros(_)
DropLeadingZeros(s) ==
    IF Len(s) > 1 /\ Ch(s, 1) = "0" THEN DropLeadingZeros(Tail(s)) ELSE s

RECURSIVE TakeDigits(_)
TakeDigits(s) ==
    IF Len(s) > 0 /\ Ch(s, 1) \in DigitChars
    THEN Ch(s, 1) \o TakeDigits(Tail(s))
    ELSE ""

RECURSIVE SkipDigits(_)
SkipDigits(s) ==
    IF Len(s) > 0 /\ Ch(s, 1) \in DigitChars THEN SkipDigits(Tail(s)) ELSE s

IntegralText(s) ==
    LET t    == Strip(s)
        neg  == Len(t) > 0 /\ Ch(t, 1) = "-"
        u    == IF Len(t) > 0 /\ Ch(t, 1) \in {"+", "-"} THEN Tail(t) ELSE t
        ip   == TakeDigits(u)
        body == DropLeadingZeros(IF ip = "" THEN "0" ELSE ip)
    IN  IF neg /\ body # "0" THEN "-" \o body ELSE body


Min(a, b) == IF a < b THEN a ELSE b
Max(a, b) == IF a > b THEN a ELSE b
SetMin(S) == CHOOSE m \in S : \A n \in S : m <= n

RECURSIVE TrimTrailingZeros(_)
TrimTrailingZeros(s) ==
    IF Len(s) > 1 /\ Ch(s, Len(s)) = "0"
    THEN TrimTrailingZeros(SubSeq(s, 1, Len(s) - 1))
    ELSE s

\* str(float(s)) for a finite, non-integral s
FloatText(s) ==
    LET t    == Strip(s)
        neg  == Len(t) > 0 /\ Ch(t, 1) = "-"
        u    == IF Len(t) > 0 /\ Ch(t, 1) \in {"+", "-"} THEN Tail(t) ELSE t
        ip   == TakeDigits(u)
        rest == SkipDigits(u)
        frac == IF Len(rest) > 0 THEN Tail(rest) ELSE ""
        body == DropLeadingZeros(IF ip = "" THEN "0" ELSE ip)
                   \o "." \o TrimTrailingZeros(frac)
    IN  IF neg THEN "-" \o body ELSE body

(***************************************************************************)
(* STEP 1 helpers                                                          *)
(***************************************************************************)
METADATA_TOKENS ==
    { "answer choices", "answered", "skipped", "responses", "response",
      "average", "total", "base", "count", "%", "weighted base",
      "unweighted base" }

clean_value(v) ==
    IF v = NaN \/ v = "" THEN ""
    ELSE IF IsFloat(v)
         THEN LET u == Lower(Strip(v))
                  w == IF Len(u) > 0 /\ Ch(u, 1) \in {"+", "-"}
                       THEN Tail(u) ELSE u
              IN  IF w = "nan" THEN "nan"
                  ELSE IF w \in {"inf", "infinity"}
                       THEN (IF Ch(u, 1) = "-" THEN "-inf" ELSE "inf")
                  ELSE IF IsIntegralFloat(v) THEN IntegralText(v)
                  ELSE FloatText(v)
         ELSE Strip(v)

is_metadata_text(s) ==
    IF s = "" THEN FALSE ELSE Lower(Strip(s)) \in METADATA_TOKENS

\* QUESTION_RE = ^\s*Q\s*(\d+)\s*[\.\)\:\-]?\s*(.*)$   (re.IGNORECASE)
is_question_row(text) ==
    LET a == LStrip(text)
    IN  /\ Len(a) > 0
        /\ Ch(a, 1) \in {"Q", "q"}
        /\ LET b == LStrip(Tail(a))
           IN  Len(b) > 0 /\ Ch(b, 1) \in DigitChars

\* second component of parse_question_row: m.group(2).strip()
parse_question_row(text) ==
    IF ~is_question_row(text) THEN None
    ELSE LET a == LStrip(text)
             b == LStrip(Tail(a))
             c == LStrip(SkipDigits(b))
             d == IF Len(c) > 0 /\ Ch(c, 1) \in {".", ")", ":", "-"}
                  THEN Tail(c) ELSE c
         IN  Strip(d)

\* df.iloc[r, c] and the stripped first cell of row r
iloc(df, r, c) == df[r + 1][c + 1]
first_cell_of(df, r) ==
    IF iloc(df, r, 0) # NaN THEN Strip(iloc(df, r, 0)) ELSE ""

is_bipolar_sub_label(first_cell, next_row) ==
    IF first_cell = "" \/ is_question_row(first_cell) THEN FALSE
    ELSE IF ~Contains(Lower(first_cell), " or ") THEN FALSE
    ELSE LET next_col0 == IF next_row[1] # NaN THEN Strip(next_row[1]) ELSE ""
             next_col1 == IF Len(next_row) > 1 /\ next_row[2] # NaN
                          THEN Strip(next_row[2]) ELSE ""
         IN  IF next_col0 # "" THEN FALSE
             ELSE IF next_col1 = "" THEN FALSE
             ELSE ~IsFloat(next_col1)

\* the column scan of detect_bipolar_question (lines 106-117)
RECURSIVE bipolar_poles(_, _, _)
bipolar_poles(poles_row, c, poles) ==
    IF c >= Min(20, Len(poles_row)) THEN poles
    ELSE LET val == poles_row[c + 1]
         IN  IF val = NaN THEN bipolar_poles(poles_row, c + 1, poles)
             ELSE LET val_str == Strip(val)
                  IN  IF Lower(val_str) = "total" THEN poles
                      ELSE IF ~is_metadata_text(val_str) /\ ~IsFloat(val_str)
                           THEN bipolar_poles(poles_row, c + 1,
                                              Append(poles, val_str))
                      ELSE bipolar_poles(poles_row, c + 1, poles)

RECURSIVE bipolar_scan(_, _, _, _, _)
bipolar_scan(df, i, sub_labels, pole_1, pole_2) ==
    IF i >= Len(df)
    THEN [sub_labels |-> sub_labels, pole_1 |-> pole_1, pole_2 |-> pole_2]
    ELSE LET first == first_cell_of(df, i)
         IN  IF is_question_row(first)
             THEN [sub_labels |-> sub_labels,
                   pole_1 |-> pole_1, pole_2 |-> pole_2]
             ELSE IF i + 1 < Len(df) /\ is_bipolar_sub_label(first, df[i + 2])
             THEN LET poles == bipolar_poles(df[i + 2], 1, <<>>)
                      take  == pole_1 = None /\ Len(poles) >= 2
                  IN  bipolar_scan(df, i + 1, Append(sub_labels, first),
                                   IF take THEN poles[1] ELSE pole_1,
                                   IF take THEN poles[2] ELSE pole_2)
             ELSE bipolar_scan(df, i + 1, sub_labels, pole_1, pole_2)

detect_bipolar_question(df, q_start_idx) ==
    bipolar_scan(df, q_start_idx + 1, <<>>, None, None)

SINGLE_KEYWORDS ==
    { "single selection", "single choice", "single select",
      "select one", "[single", "unaided single" }
MULTIPLE_KEYWORDS ==
    { "multiple selection", "multiple choice", "multiple select",
      "multi selection", "multi select", "[multiple", "[multi",
      "aided multiple", "unaided multiple" }

get_auto_type(q_text, rank_labels, options, is_bipolar) ==
    IF is_bipolar THEN "Bipolar"
    ELSE IF rank_labels # <<>> THEN "Matrix"
    ELSE LET q_lower == Lower(q_text)
         IN  IF \E k \in SINGLE_KEYWORDS : Contains(q_lower, k) THEN "Single"
             ELSE IF \E k \in MULTIPLE_KEYWORDS : Contains(q_lower, k)
                  THEN "Multiple"
             ELSE ""

is_scale_value(val_clean) ==
    \/ IsDigitStr(val_clean)
    \/ Contains(val_clean, "-")
    \/ IsIntegralFloat(val_clean)

\* re.search(r'<num>\s+means?\s+["]?([^"]+)', q_text, re.IGNORECASE) tried at
\* position i: the captured group, or NoMatch.  Only the straight double
\* quote of the character class is in the modelled alphabet.
NoMatch == "<NoMatch>"

RECURSIVE TakeUntilQuote(_)
TakeUntilQuote(s) ==
    IF Len(s) > 0 /\ Ch(s, 1) # "\""
    THEN Ch(s, 1) \o TakeUntilQuote(Tail(s))
    ELSE ""

means_group_at(q_text, i, num) ==
    LET s0 == SubSeq(q_text, i, Len(q_text))
    IN  IF ~StartsWith(s0, num) THEN NoMatch
        ELSE
        LET s1 == SubSeq(s0, Len(num) + 1, Len(s0))
            s2 == LStrip(s1)
        IN  IF Len(s1) = Len(s2) \/ Len(s2) < 4
                \/ Lower(SubSeq(s2, 1, 4)) # "mean"
            THEN NoMatch
            ELSE
            LET s3 == SubSeq(s2, 5, Len(s2))
                s4 == IF Len(s3) > 0 /\ Lower(Ch(s3, 1)) = "s"
                      THEN Tail(s3) ELSE s3
                s5 == LStrip(s4)
                k  == Len(s4) - Len(s5)
                s6 == IF Len(s5) > 0 /\ Ch(s5, 1) = "\"" THEN Tail(s5) ELSE s5
                g  == TakeUntilQuote(s6)
            IN  IF k = 0 THEN NoMatch
                ELSE IF Len(g) > 0 THEN g
                ELSE IF k >= 2 THEN " "
                ELSE NoMatch

means_search(q_text, num) ==
    LET hits == {i \in 1..Len(q_text) : means_group_at(q_text, i, num) # NoMatch}
    IN  IF hits = {} THEN NoMatch
        ELSE means_group_at(q_text, SetMin(hits), num)

expand_nps_if_needed(q_text, options) ==
    LET q_lower == Lower(q_text)
    IN  IF \/ Contains(q_lower, "1 to 10")
           \/ Contains(q_lower, "1-10")
           \/ Contains(q_lower, "scale of 0 to 10")
        THEN LET match_1  == means_search(q_text, "1")
                 match_10 == means_search(q_text, "10")
             IN  [i \in 1..10 |->
                    IF i = 1 /\ match_1 # NoMatch
                    THEN "1- " \o Strip(match_1)
                    ELSE IF i = 10 /\ match_10 # NoMatch
                    THEN "10- " \o Strip(match_10)
                    ELSE ToString(i)]
        ELSE options

\* extract_scale(row) of detect_horizontal_scale
RECURSIVE extract_scale(_, _, _)
extract_scale(row, col, scale_values) ==
    IF col >= Min(30, Len(row)) THEN scale_values
    ELSE LET val == row[col + 1]
         IN  IF val = NaN THEN extract_scale(row, col + 1, scale_values)
             ELSE LET val_clean == Strip(val)
                  IN  IF Lower(val_clean) \in {"total", "weighted average"}
                      THEN scale_values
                      ELSE IF is_scale_value(val_clean)
                      THEN extract_scale(row, col + 1,
                                         Append(scale_values, val_clean))
                      ELSE extract_scale(row, col + 1, scale_values)

detect_horizontal_scale(df, i) ==
    LET scale == extract_scale(df[i + 1], 1, <<>>)
    IN  IF Len(scale) >= 3 THEN scale
        ELSE IF i + 1 < Len(df)
             THEN LET scale2 == extract_scale(df[i + 2], 1, <<>>)
                  IN  IF Len(scale2) >= 3 THEN scale2 ELSE <<>>
             ELSE <<>>

\* rank-label scan of the row after the header (lines 314-323)
RECURSIVE matrix_ranks(_, _, _)
matrix_ranks(next_row, col, ranks) ==
    IF col >= Min(30, Len(next_row)) THEN ranks
    ELSE LET val == next_row[col + 1]
         IN  IF val = NaN THEN matrix_ranks(next_row, col + 1, ranks)
             ELSE LET val_clean == Strip(val)
                  IN  IF Lower(val_clean) = "total" THEN ranks
                      ELSE IF ~is_metadata_text(val_clean)
                      THEN matrix_ranks(next_row, col + 1,
                                        Append(ranks, val_clean))
                      ELSE matrix_ranks(next_row, col + 1, ranks)

\* attribute scan from row r on (lines 326-335)
RECURSIVE matrix_attributes(_, _, _)
matrix_attributes(df, r, attributes) ==
    IF r >= Len(df) THEN attributes
    ELSE LET val == iloc(df, r, 0)
         IN  IF val = NaN THEN attributes
             ELSE LET attr == Strip(val)
                  IN  IF is_question_row(attr) THEN attributes
                      ELSE IF ~is_metadata_text(attr)
                      THEN matrix_attributes(df, r + 1, Append(attributes, attr))
                      ELSE matrix_attributes(df, r + 1, attributes)

\* the matrix detector of the header branch: <<options, rank_labels>> when
\* it confirms a matrix, <<<<>>, <<>>>> otherwise
detect_matrix(df, i) ==
    IF i + 1 < Len(df)
    THEN LET ranks == matrix_ranks(df[i + 2], 1, <<>>)
         IN  IF Len(ranks) >= 2
             THEN LET attributes == matrix_attributes(df, i + 2, <<>>)
                  IN  IF Len(attributes) >= 2
                      THEN <<attributes, ranks>>
                      ELSE << <<>>, <<>> >>
             ELSE << <<>>, <<>> >>
    ELSE << <<>>, <<>> >>

\* a skip-ahead that hands back the header row it started from
skip_to_next_header_stays(df, skip_to) == skip_to - 1

\* skip-ahead of the bipolar branch (lines 302-308)
RECURSIVE skip_to_next_header(_, _)
skip_to_next_header(df, skip_to) ==
    IF skip_to < Len(df) /\ ~is_question_row(first_cell_of(df, skip_to))
    THEN skip_to_next_header(df, skip_to + 1)
    ELSE skip_to

(***************************************************************************)
(* Options artifact: written by clean_and_convert / _write_options_file,   *)
(* read back by SurveyDatabookV2.load_options_file                         *)
(***************************************************************************)
\* one worksheet row per option: Question Text, Option, Type, Rank_1..Rank_N
options_rows_of(q_text, options, q_type, rank_labels) ==
    [i \in 1..Len(options) |->
        [q     |-> q_text,
         opt   |-> clean_value(options[i]),
         type  |-> q_type,
         ranks |-> [r \in 1..Len(rank_labels) |-> clean_value(rank_labels[r])]]]

\* text cells that pd.read_excel turns into a missing value (default
\* na_values); every other cell of the artifact is read back as written
STR_NA_VALUES ==
    { "", "#N/A", "#NA", "<NA>", "N/A", "NA", "NULL", "NaN", "None",
      "n/a", "nan", "null", "-NaN", "-nan" }

read_excel_cell(v) == IF v \in STR_NA_VALUES THEN NaN ELSE v

\* insertion-ordered dict: replace the value of an existing key, else append
dict_set(d, key, val) ==
    IF \E i \in 1..Len(d) : d[i].question_text = key
    THEN [i \in 1..Len(d) |-> IF d[i].question_text = key THEN val ELSE d[i]]
    ELSE Append(d, val)

\* positions of the first occurrence of each value of s (keep='first')
first_occurrences(s) ==
    {i \in 1..Len(s) : \A j \in 1..(i - 1) : s[j] # s[i]}

RECURSIVE seq_of_indices(_, _, _)
seq_of_indices(S, i, n) ==
    IF i > n THEN <<>>
    ELSE IF i \in S THEN <<i>> \o seq_of_indices(S, i + 1, n)
    ELSE seq_of_indices(S, i + 1, n)

\* re.split(r'\s+or\s+', opt, maxsplit=1, flags=re.IGNORECASE), both parts
\* stripped; called only when ' or ' occurs in opt.lower()
split_poles(opt) ==
    LET low == Lower(opt)
        j   == SetMin({i \in 1..(Len(opt) - 3) : SubSeq(low, i, i + 3) = " or "})
    IN  <<Strip(SubSeq(opt, 1, j - 1)), Strip(SubSeq(opt, j + 4, Len(opt)))>>

\* config_entry with drop_duplicates(subset=['Option']) applied to the whole
\* sheet instead of the group
config_entry_sheet_dedupe(rows, question_text_raw) ==
    LET cell(i)  == read_excel_cell(rows[i].opt)
        kept     == first_occurrences([i \in 1..Len(rows) |-> cell(i)])
        group    == SelectSeq([i \in 1..Len(rows) |-> [row |-> rows[i], keep |-> i \in kept]],
                              LAMBDA e : e.keep /\ read_excel_cell(e.row.q) = question_text_raw)
        options  == [k \in 1..Len(group) |-> Strip(group[k].row.opt)]
    IN  [question_text |-> Strip(question_text_raw),
         type        |-> IF group = <<>> THEN "single" ELSE Lower(Strip(group[1].row.type)),
         options     |-> options,
         pole_pairs  |-> <<>>,
         rank_labels |-> <<>>]

\* the configuration entry load_options_file builds for one group
config_entry(rows, question_text_raw) ==
    LET cell(i)  == read_excel_cell(rows[i].opt)
        members  == seq_of_indices({i \in 1..Len(rows) :
                                      read_excel_cell(rows[i].q) = question_text_raw},
                                   1, Len(rows))
        mopt(k)  == cell(members[k])
        keep     == first_occurrences([k \in 1..Len(members) |-> mopt(k)])
        group    == [k \in 1..Cardinality(keep) |->
                        rows[members[seq_of_indices(keep, 1, Len(members))[k]]]]
        q_types  == SelectSeq([k \in 1..Len(group) |-> read_excel_cell(group[k].type)],
                              LAMBDA t : t # NaN)
        q_type   == IF Len(q_types) > 0 THEN Strip(q_types[1]) ELSE "Single"
        opts_raw == SelectSeq([k \in 1..Len(group) |-> read_excel_cell(group[k].opt)],
                              LAMBDA o : o # NaN)
        options  == [k \in 1..Len(opts_raw) |-> Strip(opts_raw[k])]
        question_text == Strip(question_text_raw)
    IN  IF Lower(q_type) = "bipolar"
        THEN [question_text |-> question_text,
              type        |-> "bipolar",
              options     |-> options,
              pole_pairs  |-> [k \in 1..Len(options) |->
                                 IF Contains(Lower(options[k]), " or ")
                                 THEN split_poles(options[k])
                                 ELSE <<options[k], "">>],
              rank_labels |-> <<>>]
        ELSE
        LET first_row == group[1]
            labels    == [r \in 1..Len(first_row.ranks) |->
                            LET val == read_excel_cell(first_row.ranks[r])
                            IN  IF val = NaN THEN ""
                                ELSE IF EndsWith(Strip(val), ".0")
                                THEN SubSeq(Strip(val), 1, Len(Strip(val)) - 2)
                                ELSE Strip(val)]
            rank_labels == IF Contains(Lower(q_type), "matrix")
                           THEN SelectSeq(labels, LAMBDA l : l # "")
                           ELSE <<>>
        IN  [question_text |-> question_text,
             type        |-> Lower(q_type),
             options     |-> options,
             pole_pairs  |-> <<>>,
             rank_labels |-> rank_labels]

\* SurveyDatabookV2.load_options_file: groupby('Question Text', sort=False)
\* over the rows whose question text is not missing
RECURSIVE load_groups(_, _, _)
load_groups(rows, keys, config) ==
    IF keys = <<>> THEN config
    ELSE load_groups(rows, Tail(keys),
                     dict_set(config, Strip(Head(keys)),
                              config_entry(rows, Head(keys))))

load_options_file(rows) ==
    LET qcell(i) == read_excel_cell(rows[i].q)
        firsts   == {i \in first_occurrences([j \in 1..Len(rows) |-> qcell(j)]) :
                        qcell(i) # NaN}
        keys     == [k \in 1..Cardinality(firsts) |->
                        qcell(seq_of_indices(firsts, 1, Len(rows))[k])]
    IN  load_groups(rows, keys, <<>>)

(***************************************************************************)
(* State                                                                   *)
(***************************************************************************)
VARIABLES
    \* main(): step 0 (clean_and_convert) followed by load_options_file
    df,                   \* the raw survey grid read by pd.read_excel(header=None)
    idx,                  \* row index of the scanning loop
    current_q_text,
    current_options,
    current_rank_labels,
    current_is_bipolar,
    in_question,
    questions,            \* emitted question records
    manual_type,          \* q["manual_type"] per question, None when absent
    options_file,         \* rows of the written Question_Options sheet
    question_config,      \* SurveyDatabookV2.question_config
    pc,                   \* position in main()
    \* history: header row of the open segment, and one entry per closed one
    seg_hdr,
    seg_log,
    \* API layer
    sessions,             \* _SESSIONS: session_id -> session record
    session_dirs,         \* session directories present under _TEMP_ROOT
    disk_options,         \* content of <session_dir>/options.xlsx, None if absent
    disk_output,          \* state of <session_dir>/databook.xlsx
    used_ids,             \* session ids uuid4 has handed out
    response,             \* the last HTTP response
    \* SurveyDatabookV2.identify_structure
    columns,              \* self.df.columns, the raw-data header row
    col_idx,              \* columns handled so far (the next idx of the loop)
    current_question,     \* number of the open question, 0 for None
    question_counter,
    question_map,         \* question number -> mapping
    metadata_columns,
    \* create_databook and apply_cuts_to_databook
    analysis,             \* analysis['questions'] of analyze_survey
    cuts,                 \* the cuts loaded from the template
    ws,                   \* the Output sheet: (row, column) -> cell value
    row,                  \* next free row of create_databook
    q_pos,                \* questions written so far
    book_pc,              \* position in generate: create, saved, cuts, done
    blocks,               \* find_question_blocks(ws)
    cut_blocks,
    b_pos,                \* blocks handled so far
    \* history: count / N formulas written by create_databook, and formulas
    \* the cuts engine produced by adding a cut predicate
    synth_log,
    cut_log,
    \* one run of main(), /generate or /upload, step by step
    run_caller,
    run_pc,
    run_cuts,
    cuts_temp_path,
    temp_files,
    out_file,
    run_dir,
    run_status,
    \* one direct call of a function of the pipeline
    fn_name,
    fn_args,
    fn_ret,
    fn_pc

step1Vars ==
    <<df, idx, current_q_text, current_options, current_rank_labels,
      current_is_bipolar, in_question, questions, manual_type, options_file,
      question_config, pc, seg_hdr, seg_log>>

apiVars ==
    <<sessions, session_dirs, disk_options, disk_output, used_ids, response>>

structVars ==
    <<columns, col_idx, current_question, question_counter, question_map,
      metadata_columns>>

bookVars ==
    <<analysis, cuts, ws, row, q_pos, book_pc, blocks, cut_blocks, b_pos,
      synth_log, cut_log>>

runVars ==
    <<run_caller, run_pc, run_cuts, cuts_temp_path, temp_files, out_file, run_dir, run_status>>

fnVars ==
    <<fn_name, fn_args, fn_ret, fn_pc>>

vars ==
    <<step1Vars, apiVars, structVars, bookVars, runVars, fnVars>>

\* what main() leaves alone
notStep1 ==
    <<apiVars, structVars, bookVars, runVars, fnVars>>
\* what the API handlers leave alone
notApi ==
    <<step1Vars, structVars, bookVars, runVars, fnVars>>
\* what identify_structure leaves alone
notStruct ==
    <<step1Vars, apiVars, bookVars, runVars, fnVars>>
\* what create_databook and the cuts engine leave alone
notBook ==
    <<step1Vars, apiVars, structVars, runVars, fnVars>>
\* what a run of an entry point leaves alone
notRun ==
    <<step1Vars, apiVars, structVars, bookVars, fnVars>>
\* what a direct call leaves alone
notFn ==
    <<step1Vars, apiVars, structVars, bookVars, runVars>>

(***************************************************************************)
(* Input grids                                                             *)
(***************************************************************************)
RowSet ==
    { <<"Q1 a [single", NaN, NaN, NaN>>,     \* header, single-choice keyword
      <<"Q2 b", "1", "2", "3">>,             \* header carrying a numeric scale
      <<"Q3", NaN, NaN, NaN>>,               \* header without question text
      <<"1.0", NaN, NaN, NaN>>,              \* option row, a number read as float
      <<"Blue", "4", "5", "6">>,             \* option row with numeric cells
      <<"A or B", "7", NaN, NaN>>,           \* "or" sub-label
      <<" ", "Good", "Bad", NaN>>,           \* blank-after-strip first cell, labels
      <<"Total", "Good", " ", "Bad">> }      \* metadata first cell, labels

\* the rows that open a question
HeaderRows == {r \in RowSet : is_question_row(r[1])}

\* the grids of n rows from their first question-header row on: the rows
\* above it are passed over by the loop, which has no open question there
RECURSIVE GridsOfLen(_)
GridsOfLen(n) ==
    IF n = 1 THEN {<<h>> : h \in HeaderRows}
    ELSE {Append(g, r) : g \in GridsOfLen(n - 1), r \in RowSet}

Grids == UNION {GridsOfLen(n) : n \in 1..MaxRows}

(***************************************************************************)
(* clean_and_convert: the scanning loop                                    *)
(***************************************************************************)
\* truth value of an optional string
Truthy(v) == v # None /\ v # ""

\* the flush of lines 257-265 (repeated at 278-286 and 358-366)
flushes == Truthy(current_q_text)
              /\ (current_options # <<>> \/ current_rank_labels # <<>>)

flushed_questions ==
    IF flushes
    THEN Append(questions,
                [q_text      |-> current_q_text,
                 options     |-> IF current_rank_labels = <<>>
                                 THEN expand_nps_if_needed(current_q_text,
                                                           current_options)
                                 ELSE current_options,
                 rank_labels |-> current_rank_labels,
                 is_bipolar  |-> current_is_bipolar])
    ELSE questions

\* history entry for the segment that a flush point closes
closed_log ==
    IF in_question
    THEN Append(seg_log,
                [hdr         |-> seg_hdr,
                 options     |-> current_options,
                 rank_labels |-> current_rank_labels,
                 is_bipolar  |-> current_is_bipolar,
                 emitted     |-> flushes])
    ELSE seg_log

first_cell == first_cell_of(df, idx)

step1Rest == <<df, manual_type, options_file, question_config>>

\* lines 256-273
CC_EmptyRow ==
    /\ pc = "scan" /\ idx < Len(df)
    /\ first_cell = ""
    /\ questions' = flushed_questions
    /\ seg_log' = closed_log
    /\ current_q_text' = None
    /\ current_options' = <<>>
    /\ current_rank_labels' = <<>>
    /\ current_is_bipolar' = FALSE
    /\ in_question' = FALSE
    /\ seg_hdr' = -1
    /\ idx' = idx + 1
    /\ UNCHANGED <<pc, step1Rest>>
    /\ UNCHANGED notStep1

\* lines 276-348
CC_QuestionHeader ==
    /\ pc = "scan" /\ idx < Len(df)
    /\ first_cell # "" /\ is_question_row(first_cell)
    /\ questions' = flushed_questions
    /\ seg_log' = closed_log
    /\ current_q_text' = parse_question_row(first_cell)
    /\ in_question' = TRUE
    /\ seg_hdr' = idx
    /\ LET bip == detect_bipolar_question(df, idx)
       IN  IF bip.sub_labels # <<>>
           THEN /\ current_options' = bip.sub_labels
                /\ current_rank_labels' =
                      << IF Truthy(bip.pole_1) THEN bip.pole_1 ELSE "Pole_1",
                         IF Truthy(bip.pole_2) THEN bip.pole_2 ELSE "Pole_2" >>
                /\ current_is_bipolar' = TRUE
                /\ idx' = skip_to_next_header(df, idx + 1)
           ELSE LET mx    == detect_matrix(df, idx)
                    scale == detect_horizontal_scale(df, idx)
                IN  /\ current_rank_labels' = mx[2]
                    /\ current_options' =
                          IF mx[2] # <<>> THEN mx[1]
                          ELSE IF scale # <<>> THEN scale
                          ELSE <<>>
                    /\ current_is_bipolar' = FALSE
                    /\ idx' = idx + 1
    /\ UNCHANGED <<pc, step1Rest>>
    /\ UNCHANGED notStep1

\* lines 351-355
CC_OptionRow ==
    /\ pc = "scan" /\ idx < Len(df)
    /\ first_cell # "" /\ ~is_question_row(first_cell)
    /\ current_options' =
          IF /\ in_question /\ current_rank_labels = <<>>
             /\ ~is_metadata_text(first_cell)
             /\ Lower(first_cell) # "answer choices"
          THEN Append(current_options, first_cell)
          ELSE current_options
    /\ idx' = idx + 1
    /\ UNCHANGED <<current_q_text, current_rank_labels, current_is_bipolar,
                   in_question, questions, seg_hdr, seg_log, pc, step1Rest>>
    /\ UNCHANGED notStep1

\* lines 357-366: save the last question
CC_SaveLast ==
    /\ pc = "scan" /\ idx >= Len(df)
    /\ questions' = flushed_questions
    /\ seg_log' = closed_log
    /\ pc' = "types"
    /\ UNCHANGED <<idx, current_q_text, current_options, current_rank_labels,
                   current_is_bipolar, in_question, seg_hdr, step1Rest>>
    /\ UNCHANGED notStep1

auto_type_of(q) ==
    get_auto_type(q.q_text, q.rank_labels, q.options, q.is_bipolar)

\* lines 369-397: every question without an auto type gets Single or
\* Multiple from the terminal
CC_TypeValidation ==
    /\ pc = "types"
    /\ \E answers \in [1..Len(questions) -> {"Single", "Multiple"}] :
          /\ \A i \in 1..Len(questions) :
                auto_type_of(questions[i]) # "" => answers[i] = "Single"
          /\ manual_type' =
                [i \in 1..Len(questions) |->
                    IF auto_type_of(questions[i]) = "" THEN answers[i] ELSE None]
    /\ pc' = "write"
    /\ UNCHANGED <<df, idx, current_q_text, current_options,
                   current_rank_labels, current_is_bipolar, in_question,
                   questions, options_file, question_config, seg_hdr, seg_log>>
    /\ UNCHANGED notStep1

RECURSIVE cc_rows(_, _, _)
cc_rows(qs, mt, i) ==
    IF i > Len(qs) THEN <<>>
    ELSE LET q      == qs[i]
             auto   == auto_type_of(q)
             q_type == IF auto = "" THEN (IF mt[i] = None THEN "" ELSE mt[i])
                       ELSE auto
         IN  options_rows_of(q.q_text, q.options, q_type, q.rank_labels)
                \o cc_rows(qs, mt, i + 1)

\* lines 400-440
CC_WriteOptionsFile ==
    /\ pc = "write"
    /\ options_file' = cc_rows(questions, manual_type, 1)
    /\ pc' = "load"
    /\ UNCHANGED <<df, idx, current_q_text, current_options,
                   current_rank_labels, current_is_bipolar, in_question,
                   questions, manual_type, question_config, seg_hdr, seg_log>>
    /\ UNCHANGED notStep1

\* main() line 1987
Main_LoadOptionsFile ==
    /\ pc = "load"
    /\ question_config' = load_options_file(options_file)
    /\ pc' = "loaded"
    /\ UNCHANGED <<df, idx, current_q_text, current_options,
                   current_rank_labels, current_is_bipolar, in_question,
                   questions, manual_type, options_file, seg_hdr, seg_log>>
    /\ UNCHANGED notStep1

Step1Next ==
    \/ CC_EmptyRow
    \/ CC_QuestionHeader
    \/ CC_OptionRow
    \/ CC_SaveLast
    \/ CC_TypeValidation
    \/ CC_WriteOptionsFile
    \/ Main_LoadOptionsFile

(***************************************************************************)
(* API layer: _parse_questions_from_file                                   *)
(***************************************************************************)
\* _flush() of lines 2210-2220 without the test for collected options
api_flush_every_header(st) ==
    IF Truthy(st.current_q_text)
    THEN Append(st.questions,
                [q_text      |-> st.current_q_text,
                 options     |-> IF st.current_rank_labels = <<>>
                                 THEN expand_nps_if_needed(st.current_q_text,
                                                           st.current_options)
                                 ELSE st.current_options,
                 rank_labels |-> st.current_rank_labels,
                 is_bipolar  |-> st.current_is_bipolar])
    ELSE st.questions

\* _flush() of lines 2210-2220 applied to the scanner state st
api_flush(st) ==
    IF Truthy(st.current_q_text)
          /\ (st.current_options # <<>> \/ st.current_rank_labels # <<>>)
    THEN Append(st.questions,
                [q_text      |-> st.current_q_text,
                 options     |-> IF st.current_rank_labels = <<>>
                                 THEN expand_nps_if_needed(st.current_q_text,
                                                           st.current_options)
                                 ELSE st.current_options,
                 rank_labels |-> st.current_rank_labels,
                 is_bipolar  |-> st.current_is_bipolar])
    ELSE st.questions

\* one iteration of the while loop of lines 2223-2300
api_scan_step(file, st) ==
    LET cell == IF iloc(file, st.idx, 0) # NaN
                THEN Strip(iloc(file, st.idx, 0)) ELSE ""
    IN  IF cell = ""
        THEN [idx |-> st.idx + 1, current_q_text |-> None,
              current_options |-> <<>>, current_rank_labels |-> <<>>,
              current_is_bipolar |-> FALSE, in_question |-> FALSE,
              questions |-> api_flush(st)]
        ELSE IF is_question_row(cell)
        THEN LET bip == detect_bipolar_question(file, st.idx)
             IN  IF bip.sub_labels # <<>>
                 THEN [idx |-> skip_to_next_header(file, st.idx + 1),
                       current_q_text |-> parse_question_row(cell),
                       current_options |-> bip.sub_labels,
                       current_rank_labels |->
                          << IF Truthy(bip.pole_1) THEN bip.pole_1 ELSE "Pole_1",
                             IF Truthy(bip.pole_2) THEN bip.pole_2 ELSE "Pole_2" >>,
                       current_is_bipolar |-> TRUE, in_question |-> TRUE,
                       questions |-> api_flush(st)]
                 ELSE LET mx    == detect_matrix(file, st.idx)
                          scale == detect_horizontal_scale(file, st.idx)
                      IN  [idx |-> st.idx + 1,
                           current_q_text |-> parse_question_row(cell),
                           current_options |->
                              IF mx[2] # <<>> THEN mx[1]
                              ELSE IF scale # <<>> THEN scale ELSE <<>>,
                           current_rank_labels |-> mx[2],
                           current_is_bipolar |-> FALSE, in_question |-> TRUE,
                           questions |-> api_flush(st)]
        ELSE [st EXCEPT
                !.idx = st.idx + 1,
                !.current_options =
                    IF /\ st.in_question /\ st.current_rank_labels = <<>>
                       /\ ~is_metadata_text(cell)
                       /\ Lower(cell) # "answer choices"
                    THEN Append(st.current_options, cell)
                    ELSE st.current_options]

RECURSIVE api_scan(_, _)
api_scan(file, st) ==
    IF st.idx < Len(file) THEN api_scan(file, api_scan_step(file, st))
    ELSE api_flush(st)

\* the scanned records with auto_type attached (lines 2304-2308)
with_auto_type(qs) ==
    [i \in 1..Len(qs) |->
        [q_text      |-> qs[i].q_text,
         options     |-> qs[i].options,
         rank_labels |-> qs[i].rank_labels,
         is_bipolar  |-> qs[i].is_bipolar,
         auto_type   |-> get_auto_type(qs[i].q_text, qs[i].rank_labels,
                                       qs[i].options, qs[i].is_bipolar)]]

\* _parse_questions_from_file
parse_questions_from_file(file) ==
    with_auto_type(api_scan(file,
                            [idx |-> 0, current_q_text |-> None,
                             current_options |-> <<>>, current_rank_labels |-> <<>>,
                             current_is_bipolar |-> FALSE, in_question |-> FALSE,
                             questions |-> <<>>]))

(***************************************************************************)
(* API layer: sessions and the four endpoints                              *)
(***************************************************************************)
Users      == {"u1", "u2"}
SessionIds == {"s1", "s2"}

\* uploaded questions files
GridUnknownAndMatrix ==
    << <<"Q2 b", "1", "2", "3">>,
       <<NaN, NaN, NaN, NaN>>,
       <<"Q1 a [single", NaN, NaN, NaN>>,
       <<"Total", "Good", " ", "Bad">>,
       <<"Red", NaN, NaN, NaN>>,
       <<"Blue", "4", "5", "6">> >>
GridSingle ==
    << <<"Q1 a [single", NaN, NaN, NaN>>,
       <<"Red", NaN, NaN, NaN>>,
       <<"Blue", "4", "5", "6">> >>
ApiGrids == {GridUnknownAndMatrix, GridSingle}

ApiParsed == [g \in ApiGrids |-> parse_questions_from_file(g)]

\* question texts and types a /confirm-types request may carry
QTexts      == {"a [single", "b"}
TypeChoices == {"", "Single"}
ConfirmItems == [q_text : QTexts, q_type : TypeChoices]

\* request.question_types: no item, one item, one item per question text, and
\* a list naming the same text twice
ConfirmRequests ==
    {<<>>}
      \cup {<<it>> : it \in ConfirmItems}
      \cup {<<x, y>> : x \in {it \in ConfirmItems : it.q_text = "a [single"},
                       y \in {it \in ConfirmItems : it.q_text = "b"}}
      \cup {<< [q_text |-> "b", q_type |-> "Single"],
               [q_text |-> "b", q_type |-> ""] >>}

\* a dict over question texts; None marks an absent key
EmptyDict == [t \in QTexts |-> None]

\* {item.q_text: item.q_type for item in request.question_types}
RECURSIVE dict_of_items(_, _)
dict_of_items(items, d) ==
    IF items = <<>> THEN d
    ELSE dict_of_items(Tail(items),
                       [d EXCEPT ![Head(items).q_text] = Head(items).q_type])

Resp(op, sid, status) == [op |-> op, status |-> status]

\* an id generator that hands out an id again once its session is gone
new_session_id_reused(used) ==
    IF "s1" \notin DOMAIN sessions THEN "s1"
    ELSE IF "s2" \notin DOMAIN sessions THEN "s2"
    ELSE None

\* str(uuid.uuid4()) of line 2415: an id no earlier upload drew; ids are
\* opaque, so the fresh one is taken in the order s1, s2
new_session_id(used) ==
    IF "s1" \notin used THEN "s1"
    ELSE IF "s2" \notin used THEN "s2"
    ELSE None

\* POST /upload (lines 2415-2496); reading either file may raise
Upload(user_id, file) ==
    \E session_id \in {new_session_id(used_ids)} \ {None}, fail \in BOOLEAN :
        /\ used_ids' = used_ids \cup {session_id}
        /\ IF ~fail
           THEN /\ sessions' =
                     [sid \in DOMAIN sessions \cup {session_id} |->
                        IF sid = session_id
                        THEN [user_id         |-> user_id,
                              questions       |-> ApiParsed[file],
                              confirmed_types |-> EmptyDict]
                        ELSE sessions[sid]]
                /\ session_dirs' = session_dirs \cup {session_id}
                /\ response' = Resp("upload", session_id, 200)
           ELSE /\ sessions' = sessions
                /\ session_dirs' = session_dirs \ {session_id}
                /\ response' = Resp("upload", session_id, 400)
        /\ UNCHANGED <<disk_options, disk_output>>
        /\ UNCHANGED notApi

\* confirmed_types.get(q["q_text"], q.get("auto_type", ""))
confirm_lookup(confirmed_types, q) ==
    IF confirmed_types[q.q_text] # None THEN confirmed_types[q.q_text]
    ELSE q.auto_type

\* /confirm-types storing the submitted types before it validates them
ConfirmTypes_store_first(user_id, session_id, question_types) ==
    /\ IF session_id \notin DOMAIN sessions
       THEN /\ response' = Resp("confirm", session_id, 404)
            /\ sessions' = sessions
       ELSE IF sessions[session_id].user_id # user_id
       THEN /\ response' = Resp("confirm", session_id, 403)
            /\ sessions' = sessions
       ELSE LET qs              == sessions[session_id].questions
                confirmed_types == dict_of_items(question_types, EmptyDict)
                missing         == {i \in 1..Len(qs) :
                                      confirm_lookup(confirmed_types, qs[i]) = ""}
            IN  /\ sessions' = [sessions EXCEPT
                                  ![session_id].confirmed_types = confirmed_types]
                /\ response' = Resp("confirm", session_id,
                                    IF missing # {} THEN 400 ELSE 200)
    /\ UNCHANGED <<session_dirs, disk_options, disk_output, used_ids>>
    /\ UNCHANGED notApi

\* POST /confirm-types (lines 2517-2569)
ConfirmTypes(user_id, session_id, question_types) ==
    /\ IF session_id \notin DOMAIN sessions
       THEN /\ response' = Resp("confirm", session_id, 404)
            /\ sessions' = sessions
       ELSE IF sessions[session_id].user_id # user_id
       THEN /\ response' = Resp("confirm", session_id, 403)
            /\ sessions' = sessions
       ELSE LET qs              == sessions[session_id].questions
                confirmed_types == dict_of_items(question_types, EmptyDict)
                missing         == {i \in 1..Len(qs) :
                                      confirm_lookup(confirmed_types, qs[i]) = ""}
            IN  IF missing # {}
                THEN /\ response' = Resp("confirm", session_id, 400)
                     /\ sessions' = sessions
                ELSE /\ sessions' = [sessions EXCEPT
                                       ![session_id].confirmed_types = confirmed_types]
                     /\ response' = Resp("confirm", session_id, 200)
    /\ UNCHANGED <<session_dirs, disk_options, disk_output, used_ids>>
    /\ UNCHANGED notApi

\* type _write_options_file gives a session question (line 2334)
session_type(confirmed_types, q) ==
    IF confirmed_types[q.q_text] # None THEN confirmed_types[q.q_text]
    ELSE IF q.auto_type # "" THEN q.auto_type
    ELSE "Single"

RECURSIVE session_rows(_, _, _)
session_rows(qs, confirmed_types, i) ==
    IF i > Len(qs) THEN <<>>
    ELSE options_rows_of(qs[i].q_text, qs[i].options,
                         session_type(confirmed_types, qs[i]),
                         qs[i].rank_labels)
            \o session_rows(qs, confirmed_types, i + 1)

\* POST /generate (lines 2593-2652).  The try block may raise: before
\* create_databook saved the workbook ("databook"), or in the cuts phase
\* ("cuts"), which only runs when the request carries cuts
Generate(user_id, session_id, has_cuts) ==
    /\ IF session_id \notin DOMAIN sessions
       THEN /\ response' = Resp("generate", session_id, 404)
            /\ UNCHANGED <<disk_options, disk_output>>
       ELSE IF sessions[session_id].user_id # user_id
       THEN /\ response' = Resp("generate", session_id, 403)
            /\ UNCHANGED <<disk_options, disk_output>>
       ELSE LET session == sessions[session_id]
            IN  /\ disk_options' =
                     [disk_options EXCEPT ![session_id] =
                        session_rows(session.questions,
                                     session.confirmed_types, 1)]
                /\ \E fail \in {"none", "databook"}
                                 \cup (IF has_cuts THEN {"cuts"} ELSE {}) :
                      /\ disk_output' =
                           [disk_output EXCEPT ![session_id] =
                              IF fail = "databook" THEN @
                              ELSE IF fail = "cuts" \/ ~has_cuts THEN "base"
                              ELSE "cut"]
                      /\ response' = Resp("generate", session_id,
                                          IF fail = "none" THEN 200 ELSE 500)
    /\ UNCHANGED <<sessions, session_dirs, used_ids>>
    /\ UNCHANGED notApi

\* DELETE /session/{id} without the ownership test of lines 2677-2681
CleanupSession_any_user(user_id, session_id) ==
    /\ IF session_id \notin DOMAIN sessions
       THEN /\ response' = Resp("cleanup", session_id, 404)
            /\ UNCHANGED <<sessions, session_dirs, disk_options, disk_output>>
       ELSE /\ session_dirs' = session_dirs \ {session_id}
            /\ disk_options' = [disk_options EXCEPT ![session_id] = None]
            /\ disk_output' = [disk_output EXCEPT ![session_id] = "absent"]
            /\ sessions' = [sid \in DOMAIN sessions \ {session_id} |-> sessions[sid]]
            /\ response' = Resp("cleanup", session_id, 200)
    /\ UNCHANGED used_ids
    /\ UNCHANGED notApi

\* DELETE /session/{id} (lines 2671-2687)
CleanupSession(user_id, session_id) ==
    /\ IF session_id \notin DOMAIN sessions
       THEN /\ response' = Resp("cleanup", session_id, 404)
            /\ UNCHANGED <<sessions, session_dirs, disk_options, disk_output>>
       ELSE IF sessions[session_id].user_id # user_id
       THEN /\ response' = Resp("cleanup", session_id, 403)
            /\ UNCHANGED <<sessions, session_dirs, disk_options, disk_output>>
       ELSE /\ session_dirs' = session_dirs \ {session_id}
            /\ disk_options' = [disk_options EXCEPT ![session_id] = None]
            /\ disk_output' = [disk_output EXCEPT ![session_id] = "absent"]
            /\ sessions' = [sid \in DOMAIN sessions \ {session_id} |-> sessions[sid]]
            /\ response' = Resp("cleanup", session_id, 200)
    /\ UNCHANGED used_ids
    /\ UNCHANGED notApi

DoUpload ==
    \E user_id \in Users, file \in ApiGrids :
        Upload(user_id, file)
DoConfirmTypes ==
    \E user_id \in Users, session_id \in SessionIds,
       question_types \in ConfirmRequests :
        ConfirmTypes(user_id, session_id, question_types)
DoGenerate ==
    \E user_id \in Users, session_id \in SessionIds, has_cuts \in BOOLEAN :
        Generate(user_id, session_id, has_cuts)
DoCleanupSession ==
    \E user_id \in Users, session_id \in SessionIds :
        CleanupSession(user_id, session_id)

ApiNext == DoUpload \/ DoConfirmTypes \/ DoGenerate \/ DoCleanupSession

(***************************************************************************)
(* SurveyDatabookV2.identify_structure                                     *)
(***************************************************************************)
exact_metadata ==
    { "respondent id", "collector id", "start date", "end date",
      "ip address", "email address", "first name", "last name",
      "custom data 1", "custom data 2", "custom data" }
exact_exclude ==
    { "status", "test/garbage entry", "reason for rejection",
      "contact no.", "contact no", "surveyor name", "tiers" }

\* what a cell of the raw-data header row holds
ColumnKinds == {"Respondent ID", " Status", "Colour", "Age", "blank"}

\* number of columns before position i holding the same header text
earlier_same(kinds, i) ==
    Cardinality({j \in 1..(i - 1) : kinds[j] = kinds[i]})

\* the column label pandas gives position i (1-based here, idx = i - 1): a
\* blank header cell becomes "Unnamed: <idx>", a repeated header text gets
\* the suffix ".<n>"
column_label(kinds, i) ==
    IF kinds[i] = "blank" THEN "Unnamed: " \o ToString(i - 1)
    ELSE IF earlier_same(kinds, i) = 0 THEN kinds[i]
    ELSE kinds[i] \o "." \o ToString(earlier_same(kinds, i))

HeaderRowsOf(n) ==
    {[i \in 1..n |-> column_label(kinds, i)] : kinds \in [1..n -> ColumnKinds]}

HeaderLists == UNION {HeaderRowsOf(n) : n \in 1..MaxCols}

\* str(col).lower().strip()
col_lower_of(col) == Strip(Lower(col))

\* is_metadata_column with the exact_metadata list forgotten
is_metadata_column_exclude_only(col_lower) ==
    col_lower \in exact_exclude

\* the column goes to metadata_columns (line 612)
is_metadata_column(col_lower) ==
    col_lower \in exact_metadata \/ col_lower \in exact_exclude

\* the column being handled
col == columns[col_idx + 1]

\* lines 612-614
IS_MetadataColumn ==
    /\ col_idx < Len(columns)
    /\ is_metadata_column(col_lower_of(col))
    /\ metadata_columns' = Append(metadata_columns, col)
    /\ col_idx' = col_idx + 1
    /\ UNCHANGED <<columns, current_question, question_counter, question_map>>
    /\ UNCHANGED notStruct

\* lines 616-618
IS_UnnamedColumn ==
    /\ col_idx < Len(columns)
    /\ ~is_metadata_column(col_lower_of(col))
    /\ Contains(col_lower_of(col), "unnamed")
    /\ question_map' =
          IF current_question # 0
          THEN [question_map EXCEPT ![current_question].unnamed_cols =
                                        Append(@, col_idx)]
          ELSE question_map
    /\ col_idx' = col_idx + 1
    /\ UNCHANGED <<columns, current_question, question_counter,
                   metadata_columns>>
    /\ UNCHANGED notStruct

\* lines 619-626
IS_QuestionColumn ==
    /\ col_idx < Len(columns)
    /\ ~is_metadata_column(col_lower_of(col))
    /\ ~Contains(col_lower_of(col), "unnamed")
    /\ question_counter' = question_counter + 1
    /\ current_question' = question_counter + 1
    /\ question_map' = Append(question_map,
                              [question_text |-> col,
                               main_col_idx  |-> col_idx,
                               unnamed_cols  |-> <<>>])
    /\ col_idx' = col_idx + 1
    /\ UNCHANGED <<columns, metadata_columns>>
    /\ UNCHANGED notStruct

StructNext == IS_MetadataColumn \/ IS_UnnamedColumn \/ IS_QuestionColumn

(***************************************************************************)
(* create_databook: the Output sheet and its formulas                      *)
(***************************************************************************)
\* openpyxl cell values: text, number, or None for an empty cell
StrCell(s) == [t |-> "str", s |-> s, n |-> 0]
IntCell(n) == [t |-> "int", s |-> "", n |-> n]
NoneCell == [t |-> "none", s |-> "", n |-> 0]

\* ws.cell(row=r, column=c).value
cell(sheet, r, c) ==
    IF <<r, c>> \in DOMAIN sheet THEN sheet[<<r, c>>] ELSE NoneCell

\* isinstance(v, str)
is_str(v) == v.t = "str"

\* str(v or "")
cell_text(v) ==
    IF v.t = "str" THEN v.s
    ELSE IF v.t = "int" /\ v.n # 0 THEN ToString(v.n)
    ELSE ""

\* ws.max_row
max_row(sheet) ==
    LET used == {x[1] : x \in {y \in DOMAIN sheet : sheet[y].t # "none"}}
    IN  IF used = {} THEN 1 ELSE CHOOSE m \in used : \A k \in used : k <= m

RECURSIVE get_excel_column_letter(_)
get_excel_column_letter(col_num) ==
    IF col_num <= 0 THEN ""
    ELSE get_excel_column_letter((col_num - 1) \div 26)
            \o Ch(UpperChars, ((col_num - 1) % 26) + 1)

\* 'Raw Data'!$X$3:$X$8000
raw_range(letter) == "'Raw Data'!$" \o letter \o "$3:$" \o letter \o "$8000"

IsAlpha(c) == LowerCh(c) # c \/ UpperCh(c) # c

\* str.title()
RECURSIVE TitleFrom(_, _)
TitleFrom(s, prev_alpha) ==
    IF Len(s) = 0 THEN ""
    ELSE (IF prev_alpha THEN LowerCh(Head(s)) ELSE UpperCh(Head(s)))
            \o TitleFrom(Tail(s), IsAlpha(Head(s)))

Title(s) == TitleFrom(s, FALSE)

\* sep.join(parts)
RECURSIVE Join(_, _)
Join(parts, sep) ==
    IF Len(parts) = 0 THEN ""
    ELSE IF Len(parts) = 1 THEN parts[1]
    ELSE parts[1] \o sep \o Join(Tail(parts), sep)

\* one entry of analysis['questions'] (analyze_survey); col_idx -1 is None
question_of(kind, q_num) ==
    LET main == 3 * q_num - 2
        base == [question_number |-> q_num,
                 question_text |-> "Topic",
                 question_type |-> "single",
                 is_matrix |-> FALSE,
                 is_bipolar |-> FALSE,
                 options |-> <<>>,
                 rows |-> <<>>,
                 rank_labels |-> <<>>,
                 attributes |-> <<>>,
                 column_mapping |-> <<>>,
                 is_multi_select_matrix |-> FALSE,
                 raw_data_col_index |-> main,
                 unnamed_cols |-> <<>>]
        matrix == [base EXCEPT !.question_type = "matrix",
                               !.is_matrix = TRUE,
                               !.rank_labels = <<"1", "2">>,
                               !.attributes = <<"Speed">>,
                               !.unnamed_cols = <<main + 1>>]
        bipolar == [base EXCEPT !.question_type = "bipolar",
                                !.is_bipolar = TRUE]
    IN  CASE kind = "single" ->
               [base EXCEPT !.options = <<"Red", "Other (please specify)">>]
          [] kind = "single_yn" ->
               [base EXCEPT !.options = <<"Y", "N">>]
          [] kind = "single_quarter" ->
               [base EXCEPT !.options = <<"Q1 sales">>]
          [] kind = "multiple" ->
               [base EXCEPT !.question_type = "multiple",
                            !.options = <<"Red", "Others (please specify)">>,
                            !.unnamed_cols = <<main + 1>>]
          [] kind = "ranking" ->
               [base EXCEPT !.question_type = "ranking",
                            !.options = <<"Red">>]
          [] kind = "matrix" ->
               [matrix EXCEPT !.column_mapping =
                   <<[col_idx |-> main, attribute |-> "Speed",
                      rank_label |-> None]>>]
          [] kind = "matrix_unmapped" ->
               [matrix EXCEPT !.attributes = <<"Speed", "Price">>,
                              !.column_mapping =
                   <<[col_idx |-> main, attribute |-> "Speed",
                      rank_label |-> None]>>]
          [] kind = "matrix_repeated" ->
               [matrix EXCEPT !.column_mapping =
                   <<[col_idx |-> main, attribute |-> "Speed",
                      rank_label |-> None],
                     [col_idx |-> main + 1, attribute |-> "Speed",
                      rank_label |-> None]>>]
          [] kind = "matrix_multi" ->
               [matrix EXCEPT !.is_multi_select_matrix = TRUE,
                              !.column_mapping =
                   <<[col_idx |-> main, attribute |-> "Speed",
                      rank_label |-> "1"],
                     [col_idx |-> main + 1, attribute |-> "Speed",
                      rank_label |-> "2"]>>]
          [] kind = "bipolar" ->
               [bipolar EXCEPT !.rows =
                   <<[option |-> "Taste", pole_1 |-> "Sweet",
                      pole_2 |-> "Sour", col_idx |-> main]>>]
          [] kind = "bipolar_unmapped" ->
               [bipolar EXCEPT !.rows =
                   <<[option |-> "Taste", pole_1 |-> "Sweet",
                      pole_2 |-> "Sour", col_idx |-> -1]>>]

QuestionKinds ==
    {"single", "single_yn", "single_quarter", "multiple", "ranking", "matrix",
     "matrix_unmapped", "matrix_repeated", "matrix_multi", "bipolar",
     "bipolar_unmapped"}

Analyses ==
    UNION {{[p \in 1..n |-> question_of(kinds[p], p)] :
               kinds \in [1..n -> QuestionKinds]} : n \in 1..MaxQuestions}

\* load_cuts_from_template: the valid cuts of a template
CutLists ==
    LET gender == [raw_col_index |-> 8, categories |-> <<"M", "F">>]
        region == [raw_col_index |-> 9, categories |-> <<"North">>]
    IN  {<<>>, <<gender>>, <<gender, region>>}

\* the sheet at the head of the question loop
title_cells(total_questions) ==
    (<<1, 1>> :> StrCell("Survey Databook"))
       @@ (<<3, 1>> :> StrCell("Total Responses: "))
       @@ (<<3, 2>> :> StrCell("=COUNTA(" \o raw_range("A") \o ")"))
       @@ (<<4, 1>> :> StrCell("Total Questions: "
                               \o ToString(total_questions)))

\* the question title row and the "Type: ... | Base:" row
question_head(question, r) ==
    (<<r, 1>> :> StrCell("Q" \o ToString(question.question_number) \o ". "
                            \o question.question_text))
       @@ (<<r + 1, 1>> :> StrCell("Type: " \o Title(question.question_type)
                                      \o " | Base: "))
       @@ (<<r + 1, 2>> :> StrCell("=COUNTA(" \o raw_range("A") \o ")"))

pct_formula(num_col, den_col, r) ==
    "=IFERROR(" \o num_col \o ToString(r) \o "/" \o den_col \o ToString(r)
       \o "*100,0)"

\* bipolar table: cell (r, c) of the table whose header is on header_row
bipolar_cell(question, header_row, r, c) ==
    LET first_row == question.rows[1]
        headers == <<"Response Option", first_row.pole_1, first_row.pole_2,
                     "N", first_row.pole_1, first_row.pole_2>>
    IN  IF r = header_row THEN StrCell(headers[c])
        ELSE
          LET brow == question.rows[r - header_row]
              raw_col_letter == get_excel_column_letter(brow.col_idx + 1)
          IN  CASE c = 1 -> StrCell(brow.option)
                [] c = 2 ->
                     IF brow.col_idx # -1
                     THEN StrCell("=COUNTIFS(" \o raw_range(raw_col_letter)
                                     \o ",\"" \o brow.pole_1 \o "\")")
                     ELSE IntCell(0)
                [] c = 3 ->
                     IF brow.col_idx # -1
                     THEN StrCell("=COUNTIFS(" \o raw_range(raw_col_letter)
                                     \o ",\"" \o brow.pole_2 \o "\")")
                     ELSE IntCell(0)
                [] c = 4 ->
                     IF brow.col_idx # -1
                     THEN StrCell("=COUNTA(" \o raw_range(raw_col_letter)
                                     \o ")")
                     ELSE IntCell(0)
                [] c = 5 -> StrCell(pct_formula("B", "D", r))
                [] c = 6 -> StrCell(pct_formula("C", "D", r))

\* [cm['col_idx'] for cm in column_mapping if cm['attribute'] == attribute
\*  and (by_rank and cm['rank_label'] == rank_label or not by_rank)]
RECURSIVE matching_cols(_, _, _, _)
matching_cols(column_mapping, attribute, by_rank, rank_label) ==
    IF Len(column_mapping) = 0 THEN <<>>
    ELSE LET cm == Head(column_mapping)
             rest == matching_cols(Tail(column_mapping), attribute, by_rank,
                                   rank_label)
         IN  IF cm.attribute = attribute
                /\ ((by_rank /\ cm.rank_label = rank_label) \/ ~by_rank)
             THEN <<cm.col_idx>> \o rest
             ELSE rest

\* matrix table: cell (r, c) of the table whose header is on header_row_num
matrix_cell(question, header_row_num, r, c) ==
    LET rank_labels == question.rank_labels
        nr == Len(rank_labels)
        headers == <<"Response Option">> \o rank_labels \o <<"N">>
                      \o rank_labels
        n_col_idx == nr + 2
    IN  IF r = header_row_num THEN StrCell(headers[c])
        ELSE
          LET attribute == question.attributes[r - header_row_num]
          IN  IF c = 1 THEN StrCell(attribute)
              ELSE IF c <= nr + 1 THEN
                LET header_cell_ref ==
                        "$" \o get_excel_column_letter(c) \o "$"
                            \o ToString(header_row_num)
                    cols == matching_cols(question.column_mapping, attribute,
                                          question.is_multi_select_matrix,
                                          rank_labels[c - 1])
                    formulas ==
                        [k \in 1..Len(cols) |->
                            "COUNTIFS("
                               \o raw_range(get_excel_column_letter(cols[k] + 1))
                               \o "," \o header_cell_ref \o ")"]
                IN  IF Len(formulas) > 0
                    THEN StrCell("=" \o Join(formulas, "+"))
                    ELSE IntCell(0)
              ELSE IF c = n_col_idx THEN
                LET cols == matching_cols(question.column_mapping, attribute,
                                          FALSE, None)
                    len_parts ==
                        [k \in 1..Len(cols) |->
                            "LEN("
                               \o raw_range(get_excel_column_letter(cols[k] + 1))
                               \o ")"]
                IN  StrCell("=SUMPRODUCT((" \o Join(len_parts, "+")
                               \o ">0)*1)")
              ELSE StrCell(pct_formula(
                       get_excel_column_letter(2 + (c - n_col_idx - 1)),
                       get_excel_column_letter(n_col_idx), r))

is_multiple_type(q_type) ==
    q_type \in {"multiple", "multi-select", "multiple select"}

is_single_type(q_type) == q_type \in {"single", "single-select"}

is_other_option(option) ==
    Lower(Strip(option))
       \in {"other (please specify)", "others (please specify)"}

\* single / multiple table: cell (r, c); the header is on header_row
flat_cell(question, header_row, r, c) ==
    LET data == question.options
        first == header_row + 1
        n_row_ref == first + Len(data)
        all_cols == <<question.raw_data_col_index>> \o question.unnamed_cols
        raw_data_col ==
            get_excel_column_letter(question.raw_data_col_index + 1)
        is_multiple == is_multiple_type(question.question_type)
    IN  IF r = header_row THEN StrCell(<<"Response Option", "N", "%">>[c])
        ELSE IF r < n_row_ref THEN
          LET i == r - first
              option == data[i + 1]
              is_other == is_other_option(option)
              count_formula ==
                  IF is_multiple /\ i < Len(all_cols)
                  THEN IF is_other
                       THEN "=COUNTA("
                               \o raw_range(get_excel_column_letter(
                                                all_cols[i + 1] + 1 + 1))
                               \o ")"
                       ELSE "=COUNTIFS("
                               \o raw_range(get_excel_column_letter(
                                                all_cols[i + 1] + 1))
                               \o ",A" \o ToString(r) \o ")"
                  ELSE IF is_other
                       THEN "=COUNTA("
                               \o raw_range(get_excel_column_letter(
                                      question.raw_data_col_index + 1 + 1))
                               \o ")"
                       ELSE "=COUNTIFS(" \o raw_range(raw_data_col)
                               \o ",A" \o ToString(r) \o ")"
          IN  CASE c = 1 -> StrCell(option)
                [] c = 2 -> StrCell(count_formula)
                [] c = 3 -> StrCell("=IFERROR(B" \o ToString(r) \o "/B$"
                                       \o ToString(n_row_ref) \o "*100,0)")
        ELSE
          LET len_parts ==
                  [k \in 1..Len(all_cols) |->
                      "LEN('Raw Data'!"
                         \o get_excel_column_letter(all_cols[k] + 1) \o "3:"
                         \o get_excel_column_letter(all_cols[k] + 1)
                         \o "8000)"]
              n_formula ==
                  IF is_single_type(question.question_type)
                  THEN "=SUM(B" \o ToString(first) \o ":B"
                          \o ToString(n_row_ref - 1) \o ")"
                  ELSE "=SUMPRODUCT((LEN(" \o raw_range("A") \o ")>0)*("
                          \o Join(len_parts, "+") \o ">0)*1)"
          IN  IF c = 1 THEN StrCell("N") ELSE StrCell(n_formula)

\* the count and N formulas among freshly written table cells
emitted(kind, table, count_cols, n_cells) ==
    {[kind |-> kind,
      role |-> IF x \in n_cells THEN "n" ELSE "count",
      formula |-> table[x].s,
      r |-> x[1],
      c |-> x[2]] :
        x \in {y \in DOMAIN table :
                  /\ is_str(table[y])
                  /\ StartsWith(table[y].s, "=")
                  /\ (y[2] \in count_cols \/ y \in n_cells)}}

question == analysis[q_pos + 1]

bookRest == <<analysis, cuts, blocks, cut_blocks, b_pos, cut_log>>

CD_BipolarTable ==
    /\ book_pc = "create"
    /\ q_pos < Len(analysis)
    /\ question.is_bipolar
    /\ LET header_row == row + 2
           last == header_row + Len(question.rows)
           table == [x \in ((header_row + 1)..last) \X (1..6)
                        \cup ({header_row} \X (1..6)) |->
                        bipolar_cell(question, header_row, x[1], x[2])]
       IN  /\ ws' = table @@ question_head(question, row) @@ ws
           /\ synth_log' = synth_log \cup
                 emitted("bipolar",
                         [x \in ((header_row + 1)..last) \X (1..6) |->
                             table[x]],
                         {2, 3}, ((header_row + 1)..last) \X {4})
           /\ row' = last + 1 + 2
    /\ q_pos' = q_pos + 1
    /\ UNCHANGED <<book_pc, bookRest>>
    /\ UNCHANGED notBook

CD_MatrixTable ==
    /\ book_pc = "create"
    /\ q_pos < Len(analysis)
    /\ ~question.is_bipolar
    /\ question.is_matrix
    /\ LET header_row_num == row + 2
           nr == Len(question.rank_labels)
           last == header_row_num + Len(question.attributes)
           table == [x \in (header_row_num..last) \X (1..(2 * nr + 2)) |->
                        matrix_cell(question, header_row_num, x[1], x[2])]
       IN  /\ ws' = table @@ question_head(question, row) @@ ws
           /\ synth_log' = synth_log \cup
                 emitted("matrix",
                         [x \in ((header_row_num + 1)..last)
                                   \X (1..(2 * nr + 2)) |-> table[x]],
                         2..(nr + 1),
                         ((header_row_num + 1)..last) \X {nr + 2})
           /\ row' = last + 1 + 2
    /\ q_pos' = q_pos + 1
    /\ UNCHANGED <<book_pc, bookRest>>
    /\ UNCHANGED notBook

CD_FlatTable ==
    /\ book_pc = "create"
    /\ q_pos < Len(analysis)
    /\ ~question.is_bipolar
    /\ ~question.is_matrix
    /\ LET header_row == row + 2
           n_row_ref == header_row + 1 + Len(question.options)
           table == [x \in ((header_row..(n_row_ref - 1)) \X (1..3))
                              \cup ({n_row_ref} \X (1..2)) |->
                        flat_cell(question, header_row, x[1], x[2])]
       IN  /\ ws' = table @@ question_head(question, row) @@ ws
           /\ synth_log' = synth_log \cup
                 emitted("flat",
                         [x \in (((header_row + 1)..(n_row_ref - 1)) \X (1..3))
                                   \cup ({n_row_ref} \X (1..2)) |-> table[x]],
                         {2}, {<<n_row_ref, 2>>})
           /\ row' = n_row_ref + 1 + 2
    /\ q_pos' = q_pos + 1
    /\ UNCHANGED <<book_pc, bookRest>>
    /\ UNCHANGED notBook

\* wb.save(output_path)
CD_Save ==
    /\ book_pc = "create"
    /\ q_pos = Len(analysis)
    /\ book_pc' = "saved"
    /\ UNCHANGED <<ws, row, q_pos, synth_log, bookRest>>
    /\ UNCHANGED notBook

(***************************************************************************)
(* Cuts engine: find_question_blocks and apply_cuts_to_databook            *)
(***************************************************************************)
add_demographic_filter_to_formula(formula, cut_raw_col_letter, header_cell_ref) ==
    IF formula = "" THEN formula
    ELSE LET f_str_body == IF StartsWith(formula, "=")
                           THEN SubSeq(formula, 2, Len(formula))
                           ELSE formula
         IN  IF ~EndsWith(f_str_body, ")") THEN formula
             ELSE "=" \o SubSeq(f_str_body, 1, Len(f_str_body) - 1)
                      \o ", " \o raw_range(cut_raw_col_letter) \o ","
                      \o header_cell_ref \o ")"

\* the multiplicative term both N rewrites insert before "*1)"
demographic_filter(cut_raw_col_letter, header_cell_ref) ==
    "*(" \o raw_range(cut_raw_col_letter) \o "=" \o header_cell_ref \o ")"

modify_multiple_select_n_formula(base_formula, cut_raw_col_letter, header_cell_ref) ==
    IF base_formula = "" THEN base_formula
    ELSE LET f_str == Strip(base_formula)
         IN  IF ~StartsWith(Upper(f_str), "=SUMPRODUCT") THEN base_formula
             ELSE IF ~EndsWith(f_str, "*1)") THEN base_formula
             ELSE SubSeq(f_str, 1, Len(f_str) - 3)
                     \o demographic_filter(cut_raw_col_letter,
                                           header_cell_ref)
                     \o "*1)"

\* longest prefix of s made of A-Z
RECURSIVE TakeUpper(_)
TakeUpper(s) ==
    IF Len(s) > 0 /\ \E i \in 1..26 : Ch(UpperChars, i) = Head(s)
    THEN Head(s) \o TakeUpper(Tail(s))
    ELSE ""

\* re.search(r"COUNTA\('Raw Data'!\$([A-Z]+)\$3:\$([A-Z]+)\$8000\)", s):
\* group 1 of the leftmost match, NoMatch when there is none
counta_match_at(s, i) ==
    LET lead == "COUNTA('Raw Data'!$"
        after == SubSeq(s, i + Len(lead), Len(s))
        g1 == TakeUpper(after)
        mid == SubSeq(after, Len(g1) + 1, Len(after))
        after2 == SubSeq(mid, 5, Len(mid))
        g2 == TakeUpper(after2)
    IN  IF /\ SubSeq(s, i, i + Len(lead) - 1) = lead
           /\ Len(g1) > 0
           /\ StartsWith(mid, "$3:$")
           /\ Len(g2) > 0
           /\ StartsWith(SubSeq(after2, Len(g2) + 1, Len(after2)), "$8000)")
        THEN g1
        ELSE NoMatch

counta_search(s) ==
    LET hits == {i \in 1..(Len(s) - 18) : counta_match_at(s, i) # NoMatch}
    IN  IF hits = {} THEN NoMatch ELSE counta_match_at(s, SetMin(hits))

\* characters of the class [A-Za-z\s\-\(\)]
IsTypeChar(c) == IsAlpha(c) \/ c \in {" ", "-", "(", ")"}

RECURSIVE TakeTypeChars(_)
TakeTypeChars(s) ==
    IF Len(s) > 0 /\ IsTypeChar(Head(s))
    THEN Head(s) \o TakeTypeChars(Tail(s))
    ELSE ""

\* re.search(r"Type:\s*([A-Za-z\s\-\(\)]+)\s*\|", type_text) at position i
type_match_at(type_text, i) ==
    LET after == LStrip(SubSeq(type_text, i + 5, Len(type_text)))
        run == TakeTypeChars(after)
    IN  IF /\ SubSeq(type_text, i, i + 4) = "Type:"
           /\ Len(run) > 0
           /\ StartsWith(SubSeq(after, Len(run) + 1, Len(after)), "|")
        THEN run
        ELSE NoMatch

\* m.group(1).strip().lower() if m else ""
q_type_of(type_text) ==
    LET hits == {i \in 1..(Len(type_text) - 4) :
                    type_match_at(type_text, i) # NoMatch}
    IN  IF hits = {} THEN ""
        ELSE Lower(Strip(type_match_at(type_text, SetMin(hits))))

\* re.match(r'^Q\d+', s)
starts_q_number(s) ==
    Len(s) >= 2 /\ Ch(s, 1) = "Q" /\ Ch(s, 2) \in DigitChars

\* the rating columns of a matrix header: cells from column c up to "N"
RECURSIVE count_rating_cols(_, _, _)
count_rating_cols(sheet, header_row, c) ==
    IF c > 200 \/ cell(sheet, header_row, c) = StrCell("N") THEN 0
    ELSE 1 + count_rating_cols(sheet, header_row, c + 1)

\* the inner while of find_question_blocks: n_row, 0 for None
RECURSIVE scan_block(_, _, _, _, _)
scan_block(sheet, cur, last_row, is_grid, last_data_row) ==
    IF cur > last_row THEN 0
    ELSE LET a_val == cell(sheet, cur, 1)
         IN  IF a_val = StrCell("N") /\ ~is_grid THEN cur
             ELSE IF \/ (a_val.t = "none" /\ cell(sheet, cur, 2).t = "none")
                     \/ (is_str(a_val) /\ starts_q_number(Strip(a_val.s)))
                  THEN IF is_grid THEN last_data_row ELSE 0
                  ELSE scan_block(sheet, cur + 1, last_row, is_grid,
                                  IF is_str(a_val) /\ a_val.s # ""
                                  THEN cur ELSE last_data_row)

RECURSIVE find_blocks_from(_, _, _, _)
find_blocks_from(sheet, r, last_row, found) ==
    IF r > last_row THEN found
    ELSE
      LET cell_val == cell(sheet, r, 1)
      IN  IF ~(is_str(cell_val) /\ StartsWith(Strip(cell_val.s), "Q"))
          THEN find_blocks_from(sheet, r + 1, last_row, found)
          ELSE
            LET q_type == q_type_of(cell_text(cell(sheet, r + 1, 1)))
                header_row == r + 2
                is_matrix == Contains(q_type, "matrix")
                is_bipolar == Contains(q_type, "bipolar")
                n_row == scan_block(sheet, header_row + 1, last_row,
                                    is_matrix \/ is_bipolar, 0)
            IN  IF cell(sheet, header_row, 1) # StrCell("Response Option")
                   \/ n_row = 0
                THEN find_blocks_from(sheet, r + 1, last_row, found)
                ELSE find_blocks_from(sheet, n_row + 3, last_row,
                       Append(found,
                         [header_row |-> header_row,
                          first_option_row |-> header_row + 1,
                          last_option_row |->
                              IF is_matrix \/ is_bipolar THEN n_row
                              ELSE n_row - 1,
                          n_row |-> n_row,
                          q_type |-> q_type,
                          is_matrix |-> is_matrix,
                          is_bipolar |-> is_bipolar,
                          num_rating_cols |->
                              IF is_matrix
                              THEN count_rating_cols(sheet, header_row, 2)
                              ELSE IF is_bipolar THEN 2 ELSE 0]))

find_question_blocks(sheet) ==
    find_blocks_from(sheet, 6, max_row(sheet), <<>>)

\* the filled header cells of a matrix / bipolar block, from column c
RECURSIVE header_width(_, _, _)
header_width(sheet, header_row, c) ==
    IF c > 200 \/ cell(sheet, header_row, c).t = "none" THEN c - 1
    ELSE header_width(sheet, header_row, c + 1)

RECURSIVE widest_question(_, _, _)
widest_question(sheet, r, max_question_width) ==
    IF r > max_row(sheet) THEN max_question_width
    ELSE
      LET cell_val == cell(sheet, r, 1)
          type_text == Lower(cell_text(cell(sheet, r + 1, 1)))
      IN  IF /\ is_str(cell_val)
             /\ StartsWith(Strip(cell_val.s), "Q")
             /\ (Contains(type_text, "matrix")
                   \/ Contains(type_text, "bipolar"))
          THEN widest_question(sheet, r + 1,
                   Max(max_question_width, header_width(sheet, r + 2, 1)))
          ELSE widest_question(sheet, r + 1, max_question_width)

\* a cut as wide as its category columns only, whatever the blocks
cut_width_categories_only(found, max_cut_width) == max_cut_width

\* max_cut_width of one cut over all blocks
RECURSIVE cut_width(_, _)
cut_width(found, max_cut_width) ==
    IF Len(found) = 0 THEN max_cut_width
    ELSE LET block == Head(found)
         IN  cut_width(Tail(found),
                 IF block.is_matrix
                 THEN Max(max_cut_width, 2 * block.num_rating_cols + 1)
                 ELSE IF block.is_bipolar THEN Max(max_cut_width, 5)
                 ELSE max_cut_width)

\* the cut_blocks list: one entry per cut, laid out left to right
RECURSIVE plan_cut_blocks(_, _, _, _)
plan_cut_blocks(cut_defs, found, current_start_col, planned) ==
    IF Len(cut_defs) = 0 THEN planned
    ELSE
      LET cut == Head(cut_defs)
          num_cat == Len(cut.categories)
          max_cut_width == cut_width(found, 2 * num_cat)
          end_col == current_start_col + max_cut_width - 1
      IN  plan_cut_blocks(Tail(cut_defs), found, end_col + 7,
              Append(planned,
                [raw_col_index |-> cut.raw_col_index,
                 raw_col_letter |-> get_excel_column_letter(cut.raw_col_index),
                 categories |-> cut.categories,
                 num_cat |-> num_cat,
                 start_col |-> current_start_col,
                 end_col |-> end_col,
                 max_width |-> max_cut_width]))

\* f"${get_column_letter(start_col)}$1"
dropdown_ref_of(start_col) == "$" \o get_excel_column_letter(start_col) \o "$1"

\* a reference to row 1 of the category column instead of its header
header_cell_ref_first_row(n_col, header_row) ==
    "$" \o get_excel_column_letter(n_col) \o "$1"

\* f"${hdr_col_letter}${header_row}"
header_cell_ref_of(n_col, header_row) ==
    "$" \o get_excel_column_letter(n_col) \o "$" \o ToString(header_row)

\* one cell written by the cuts engine; rewritten marks a count or N formula
\* that received a cut predicate, base is the formula it was made from
Write(r, c, v, family, role, k, base, rewritten) ==
    [r |-> r, c |-> c, v |-> v, family |-> family, role |-> role, cut |-> k,
     base |-> base, rewritten |-> rewritten]

\* the sheet after a set of writes to distinct cells
apply_writes(sheet, writes) ==
    LET at == {<<w.r, w.c>> : w \in writes}
    IN  [x \in at |-> (CHOOSE w \in writes : w.r = x[1] /\ w.c = x[2]).v]
           @@ sheet

\* the bipolar branch for one block and cut k
bipolar_cut_writes(sheet, block, cb, k) ==
    LET start_col == cb.start_col
        dropdown_ref == dropdown_ref_of(start_col)
        p1_col == get_excel_column_letter(start_col)
        p2_col == get_excel_column_letter(start_col + 1)
        n_col == get_excel_column_letter(start_col + 2)
        data_rows == block.first_option_row..block.last_option_row
        pole(data_row, offset) ==
            LET base == cell(sheet, data_row, 2 + offset)
            IN  IF is_str(base) /\ StartsWith(base.s, "=")
                THEN Write(data_row, start_col + offset,
                           StrCell(add_demographic_filter_to_formula(
                               base.s, cb.raw_col_letter, dropdown_ref)),
                           "bipolar", "count", k, base.s, TRUE)
                ELSE Write(data_row, start_col + offset, base,
                           "bipolar", "count", k, "", FALSE)
        total(data_row) ==
            LET base_n == cell(sheet, data_row, 4)
                raw_col == IF is_str(base_n) THEN counta_search(base_n.s)
                           ELSE NoMatch
            IN  IF is_str(base_n) /\ StartsWith(base_n.s, "=COUNTA")
                   /\ raw_col # NoMatch
                THEN Write(data_row, start_col + 2,
                           StrCell("=COUNTIFS(" \o raw_range(raw_col)
                                      \o ",\"<>\","
                                      \o raw_range(cb.raw_col_letter) \o ","
                                      \o dropdown_ref \o ")"),
                           "bipolar", "n", k, base_n.s, TRUE)
                ELSE Write(data_row, start_col + 2, base_n,
                           "bipolar", "n", k, "", FALSE)
    IN  {Write(block.header_row, start_col + offset,
               cell(sheet, block.header_row, 2 + offset),
               "bipolar", "header", k, "", FALSE) : offset \in 0..4}
          \cup {pole(data_row, offset) :
                   data_row \in data_rows, offset \in 0..1}
          \cup {total(data_row) : data_row \in data_rows}
          \cup {Write(data_row, start_col + 3,
                      StrCell(pct_formula(p1_col, n_col, data_row)),
                      "bipolar", "pct", k, "", FALSE) :
                   data_row \in data_rows}
          \cup {Write(data_row, start_col + 4,
                      StrCell(pct_formula(p2_col, n_col, data_row)),
                      "bipolar", "pct", k, "", FALSE) :
                   data_row \in data_rows}

\* the matrix branch for one block and cut k
matrix_cut_writes(sheet, block, cb, k) ==
    LET start_col == cb.start_col
        num_rating_cols == block.num_rating_cols
        total_matrix_cols == 2 * num_rating_cols + 1
        dropdown_ref == dropdown_ref_of(start_col)
        data_rows == block.first_option_row..block.last_option_row
        base_n_col_pos == 1 + num_rating_cols + 1
        copied(src_row, col_offset) ==
            LET src == cell(sheet, src_row, 2 + col_offset)
                base_formula == cell_text(cell(sheet, src_row, base_n_col_pos))
            IN  IF src_row \in data_rows /\ col_offset < num_rating_cols
                   /\ is_str(src) /\ StartsWith(src.s, "=")
                   /\ EndsWith(src.s, ")")
                THEN Write(src_row, start_col + col_offset,
                           StrCell(SubSeq(src.s, 1, Len(src.s) - 1) \o ","
                                      \o raw_range(cb.raw_col_letter) \o ","
                                      \o dropdown_ref \o ")"),
                           "matrix", "count", k, src.s, TRUE)
                ELSE IF src_row \in data_rows /\ col_offset = num_rating_cols
                        /\ Contains(Upper(base_formula), "SUMPRODUCT")
                        /\ EndsWith(base_formula, "*1)")
                THEN Write(src_row, start_col + col_offset,
                           StrCell(SubSeq(base_formula, 1,
                                          Len(base_formula) - 3)
                                      \o demographic_filter(cb.raw_col_letter,
                                                            dropdown_ref)
                                      \o "*1)"),
                           "matrix", "n", k, base_formula, TRUE)
                ELSE Write(src_row, start_col + col_offset, src,
                           "matrix", "copy", k, "", FALSE)
    IN  {copied(src_row, col_offset) :
            src_row \in block.header_row..block.last_option_row,
            col_offset \in 0..(total_matrix_cols - 1)}

\* column of the i-th percentage column of a flat block
pct_col_of(start_col, num_cat, i) == start_col + num_cat + i

\* the single / multiple branch for one block and cut k
flat_cut_writes(sheet, block, cb, k) ==
    LET start_col == cb.start_col
        num_cat == cb.num_cat
        header_row == block.header_row
        n_row == block.n_row
        data_rows ==
            {data_row \in block.first_option_row..block.last_option_row :
                LET base == cell(sheet, data_row, 2)
                IN  is_str(base) /\ StartsWith(base.s, "=")}
        count(data_row, i) ==
            LET base_formula == cell(sheet, data_row, 2).s
                header_cell_ref == header_cell_ref_of(start_col + i,
                                                      header_row)
                other_col == counta_search(base_formula)
            IN  IF StartsWith(Upper(base_formula), "=COUNTA")
                THEN IF other_col # NoMatch
                     THEN Write(data_row, start_col + i,
                                StrCell("=COUNTIFS(" \o raw_range(other_col)
                                           \o ",\"<>\")" \o ","
                                           \o raw_range(cb.raw_col_letter)
                                           \o "," \o header_cell_ref \o ")"),
                                "flat", "count", k, base_formula, TRUE)
                     ELSE Write(data_row, start_col + i,
                                StrCell(base_formula),
                                "flat", "count", k, "", FALSE)
                ELSE Write(data_row, start_col + i,
                           StrCell(add_demographic_filter_to_formula(
                               base_formula, cb.raw_col_letter,
                               header_cell_ref)),
                           "flat", "count", k, base_formula, TRUE)
        total(i) ==
            LET base_n_formula == cell(sheet, n_row, 2)
                n_col_letter == get_excel_column_letter(start_col + i)
            IN  IF is_str(base_n_formula)
                   /\ Contains(Upper(base_n_formula.s), "SUMPRODUCT")
                THEN Write(n_row, start_col + i,
                           StrCell(modify_multiple_select_n_formula(
                               base_n_formula.s, cb.raw_col_letter,
                               header_cell_ref_of(start_col + i, header_row))),
                           "flat", "n", k, base_n_formula.s, TRUE)
                ELSE Write(n_row, start_col + i,
                           StrCell("=SUM(" \o n_col_letter
                                      \o ToString(block.first_option_row)
                                      \o ":" \o n_col_letter
                                      \o ToString(block.last_option_row)
                                      \o ")"),
                           "flat", "sum", k, "", FALSE)
    IN  {Write(header_row, start_col + i, StrCell(cb.categories[i + 1]),
               "flat", "header", k, "", FALSE) : i \in 0..(num_cat - 1)}
          \cup {Write(header_row, pct_col_of(start_col, num_cat, i),
                      StrCell(cb.categories[i + 1]),
                      "flat", "header", k, "", FALSE) : i \in 0..(num_cat - 1)}
          \cup {count(data_row, i) :
                   data_row \in data_rows, i \in 0..(num_cat - 1)}
          \cup {Write(data_row, pct_col_of(start_col, num_cat, i),
                      StrCell("=IFERROR("
                                 \o get_excel_column_letter(start_col + i)
                                 \o ToString(data_row) \o "/"
                                 \o get_excel_column_letter(start_col + i)
                                 \o ToString(n_row) \o "*100,0)"),
                      "flat", "pct", k, "", FALSE) :
                   data_row \in data_rows, i \in 0..(num_cat - 1)}
          \cup {total(i) : i \in 0..(num_cat - 1)}

block == blocks[b_pos + 1]

cutsRest == <<analysis, cuts, row, q_pos, synth_log>>

\* load_cuts_from_template found no valid cut: nothing is written
AC_NoCuts ==
    /\ book_pc = "saved"
    /\ Len(cuts) = 0
    /\ book_pc' = "done"
    /\ UNCHANGED <<ws, blocks, cut_blocks, b_pos, cut_log, cutsRest>>
    /\ UNCHANGED notBook

\* layout of the cut blocks, block discovery, one dropdown cell per cut
AC_Plan ==
    /\ book_pc = "saved"
    /\ Len(cuts) > 0
    /\ LET cuts_start_col == widest_question(ws, 6, 3) + 7
           found == find_question_blocks(ws)
           planned == plan_cut_blocks(cuts, found, cuts_start_col, <<>>)
       IN  /\ blocks' = found
           /\ cut_blocks' = planned
           /\ ws' = [x \in {<<1, planned[k].start_col>> :
                               k \in 1..Len(planned)} |-> StrCell("<>")]
                       @@ ws
    /\ b_pos' = 0
    /\ book_pc' = "cuts"
    /\ UNCHANGED <<cut_log, cutsRest>>
    /\ UNCHANGED notBook

\* the rewritten count and N cells among a block's writes
rewrites(writes) == {w \in writes : w.rewritten}

AC_BipolarBlock ==
    /\ book_pc = "cuts"
    /\ b_pos < Len(blocks)
    /\ block.is_bipolar
    /\ LET writes == UNION {bipolar_cut_writes(ws, block, cut_blocks[k], k) :
                               k \in 1..Len(cut_blocks)}
       IN  /\ ws' = apply_writes(ws, writes)
           /\ cut_log' = cut_log \cup rewrites(writes)
    /\ b_pos' = b_pos + 1
    /\ UNCHANGED <<book_pc, blocks, cut_blocks, cutsRest>>
    /\ UNCHANGED notBook

AC_MatrixBlock ==
    /\ book_pc = "cuts"
    /\ b_pos < Len(blocks)
    /\ ~block.is_bipolar
    /\ block.is_matrix
    /\ LET writes == UNION {matrix_cut_writes(ws, block, cut_blocks[k], k) :
                               k \in 1..Len(cut_blocks)}
       IN  /\ ws' = apply_writes(ws, writes)
           /\ cut_log' = cut_log \cup rewrites(writes)
    /\ b_pos' = b_pos + 1
    /\ UNCHANGED <<book_pc, blocks, cut_blocks, cutsRest>>
    /\ UNCHANGED notBook

is_flat_q_type(q_type) ==
    \/ Contains(q_type, "single")
    \/ Contains(q_type, "multiple")
    \/ Contains(q_type, "multi-select")

AC_FlatBlock ==
    /\ book_pc = "cuts"
    /\ b_pos < Len(blocks)
    /\ ~block.is_bipolar
    /\ ~block.is_matrix
    /\ is_flat_q_type(block.q_type)
    /\ LET writes == UNION {flat_cut_writes(ws, block, cut_blocks[k], k) :
                               k \in 1..Len(cut_blocks)}
       IN  /\ ws' = apply_writes(ws, writes)
           /\ cut_log' = cut_log \cup rewrites(writes)
    /\ b_pos' = b_pos + 1
    /\ UNCHANGED <<book_pc, blocks, cut_blocks, cutsRest>>
    /\ UNCHANGED notBook

\* a block of any other type gets no cut columns
AC_OtherBlock ==
    /\ book_pc = "cuts"
    /\ b_pos < Len(blocks)
    /\ ~block.is_bipolar
    /\ ~block.is_matrix
    /\ ~is_flat_q_type(block.q_type)
    /\ b_pos' = b_pos + 1
    /\ UNCHANGED <<ws, book_pc, blocks, cut_blocks, cut_log, cutsRest>>
    /\ UNCHANGED notBook

\* wb.save(databook_path)
AC_Save ==
    /\ book_pc = "cuts"
    /\ b_pos = Len(blocks)
    /\ book_pc' = "done"
    /\ UNCHANGED <<ws, blocks, cut_blocks, b_pos, cut_log, cutsRest>>
    /\ UNCHANGED notBook

BookNext ==
    \/ CD_BipolarTable
    \/ CD_MatrixTable
    \/ CD_FlatTable
    \/ CD_Save
    \/ AC_NoCuts
    \/ AC_Plan
    \/ AC_BipolarBlock
    \/ AC_MatrixBlock
    \/ AC_FlatBlock
    \/ AC_OtherBlock
    \/ AC_Save

(***************************************************************************)
(* One run of a pipeline entry point, step by step: main(), the /generate  *)
(* handler after its session checks, and the /upload handler.  Every step  *)
(* that touches a file or a workbook may raise.                            *)
(***************************************************************************)
RunCallers == {"main", "generate", "upload"}

\* the handlers of a raised exception
\* main(): except Exception prints the error and the traceback
main_except ==
    /\ run_pc' = "raised"
    /\ run_status' = 0

\* generate_databook: except raises HTTPException(500); finally removes the
\* template named by cuts_temp_path when it is set and the file exists
generate_finally(path, files) == IF path # None THEN files \ {path} ELSE files

generate_except(path, files) ==
    /\ run_pc' = "raised"
    /\ run_status' = 500
    /\ temp_files' = generate_finally(path, files)

\* tempfile.NamedTemporaryFile(delete=False, suffix='.xlsx')
TemplateName == "tmp.xlsx"

\* main(): clean_and_convert(raw_survey_file, options_file)
M_Step0 ==
    /\ run_caller = "main" /\ run_pc = "step0"
    /\ \E raised \in BOOLEAN :
          IF raised THEN main_except
          ELSE /\ run_pc' = "load"
               /\ run_status' = run_status
    /\ UNCHANGED <<run_caller, run_cuts, cuts_temp_path, temp_files, out_file, run_dir>>
    /\ UNCHANGED notRun

\* main(): SurveyDatabookV2(...) and processor.load_options_file()
M_LoadOptionsFile ==
    /\ run_caller = "main" /\ run_pc = "load"
    /\ \E raised \in BOOLEAN :
          IF raised THEN main_except
          ELSE /\ run_pc' = "load_data"
               /\ run_status' = run_status
    /\ UNCHANGED <<run_caller, run_cuts, cuts_temp_path, temp_files, out_file, run_dir>>
    /\ UNCHANGED notRun

\* main(): processor.load_data()
M_LoadData ==
    /\ run_caller = "main" /\ run_pc = "load_data"
    /\ \E raised \in BOOLEAN :
          IF raised THEN main_except
          ELSE /\ run_pc' = "identify"
               /\ run_status' = run_status
    /\ UNCHANGED <<run_caller, run_cuts, cuts_temp_path, temp_files, out_file, run_dir>>
    /\ UNCHANGED notRun

\* main(): processor.identify_structure()
M_IdentifyStructure ==
    /\ run_caller = "main" /\ run_pc = "identify"
    /\ \E raised \in BOOLEAN :
          IF raised THEN main_except
          ELSE /\ run_pc' = "create"
               /\ run_status' = run_status
    /\ UNCHANGED <<run_caller, run_cuts, cuts_temp_path, temp_files, out_file, run_dir>>
    /\ UNCHANGED notRun

\* main(): processor.create_databook(output_file, survey_name); the
\* workbook is saved by the last statement of create_databook
M_CreateDatabook ==
    /\ run_caller = "main" /\ run_pc = "create"
    /\ \E raised \in BOOLEAN :
          IF raised THEN main_except /\ out_file' = out_file
          ELSE /\ run_pc' = "collect"
               /\ run_status' = run_status
               /\ out_file' = "base"
    /\ UNCHANGED <<run_caller, run_cuts, cuts_temp_path, temp_files, run_dir>>
    /\ UNCHANGED notRun

\* main(): cuts_config = collect_cuts_from_terminal(data_file); an empty
\* configuration skips the cuts and ends the run
M_CollectCuts ==
    /\ run_caller = "main" /\ run_pc = "collect"
    /\ \E raised \in BOOLEAN :
          IF raised THEN main_except
          ELSE /\ run_pc' = IF Len(run_cuts) > 0 THEN "template" ELSE "returned"
               /\ run_status' = run_status
    /\ UNCHANGED <<run_caller, run_cuts, cuts_temp_path, temp_files, out_file, run_dir>>
    /\ UNCHANGED notRun

\* main(): cuts_template_path = create_cuts_template_from_config(cuts_config);
\* the file exists once NamedTemporaryFile returns, wb.save may raise after it
M_CreateTemplate ==
    /\ run_caller = "main" /\ run_pc = "template"
    /\ temp_files' = temp_files \cup {TemplateName}
    /\ \E raised \in BOOLEAN :
          IF raised THEN main_except /\ cuts_temp_path' = cuts_temp_path
          ELSE /\ run_pc' = "apply"
               /\ run_status' = run_status
               /\ cuts_temp_path' = TemplateName
    /\ UNCHANGED <<run_caller, run_cuts, out_file, run_dir>>
    /\ UNCHANGED notRun

\* main(): apply_cuts_to_databook(output_file, cuts_template_path); the
\* workbook is saved over the output by its last statements
M_ApplyCuts ==
    /\ run_caller = "main" /\ run_pc = "apply"
    /\ \E raised \in BOOLEAN :
          IF raised THEN main_except /\ out_file' = out_file
          ELSE /\ run_pc' = "unlink"
               /\ run_status' = run_status
               /\ out_file' = "cut"
    /\ UNCHANGED <<run_caller, run_cuts, cuts_temp_path, temp_files, run_dir>>
    /\ UNCHANGED notRun

\* main(): os.unlink(cuts_template_path), reached on the success path only
M_Unlink ==
    /\ run_caller = "main" /\ run_pc = "unlink"
    /\ temp_files' = temp_files \ {cuts_temp_path}
    /\ run_pc' = "returned"
    /\ UNCHANGED <<run_caller, run_cuts, cuts_temp_path, out_file, run_dir, run_status>>
    /\ UNCHANGED notRun

\* generate_databook: _write_options_file(questions, confirmed_types, options_path)
G_WriteOptionsFile ==
    /\ run_caller = "generate" /\ run_pc = "write_options"
    /\ \E raised \in BOOLEAN :
          IF raised THEN generate_except(cuts_temp_path, temp_files)
          ELSE /\ run_pc' = "load"
               /\ run_status' = run_status
               /\ temp_files' = temp_files
    /\ UNCHANGED <<run_caller, run_cuts, cuts_temp_path, out_file, run_dir>>
    /\ UNCHANGED notRun

\* generate_databook: SurveyDatabookV2(...) and processor.load_options_file()
G_LoadOptionsFile ==
    /\ run_caller = "generate" /\ run_pc = "load"
    /\ \E raised \in BOOLEAN :
          IF raised THEN generate_except(cuts_temp_path, temp_files)
          ELSE /\ run_pc' = "load_data"
               /\ run_status' = run_status
               /\ temp_files' = temp_files
    /\ UNCHANGED <<run_caller, run_cuts, cuts_temp_path, out_file, run_dir>>
    /\ UNCHANGED notRun

\* generate_databook: processor.load_data()
G_LoadData ==
    /\ run_caller = "generate" /\ run_pc = "load_data"
    /\ \E raised \in BOOLEAN :
          IF raised THEN generate_except(cuts_temp_path, temp_files)
          ELSE /\ run_pc' = "identify"
               /\ run_status' = run_status
               /\ temp_files' = temp_files
    /\ UNCHANGED <<run_caller, run_cuts, cuts_temp_path, out_file, run_dir>>
    /\ UNCHANGED notRun

\* generate_databook: processor.identify_structure()
G_IdentifyStructure ==
    /\ run_caller = "generate" /\ run_pc = "identify"
    /\ \E raised \in BOOLEAN :
          IF raised THEN generate_except(cuts_temp_path, temp_files)
          ELSE /\ run_pc' = "create"
               /\ run_status' = run_status
               /\ temp_files' = temp_files
    /\ UNCHANGED <<run_caller, run_cuts, cuts_temp_path, out_file, run_dir>>
    /\ UNCHANGED notRun

\* generate_databook: processor.create_databook(output_path, ...), then the
\* test of request.cuts
G_CreateDatabook ==
    /\ run_caller = "generate" /\ run_pc = "create"
    /\ \E raised \in BOOLEAN :
          IF raised
          THEN generate_except(cuts_temp_path, temp_files) /\ out_file' = out_file
          ELSE /\ run_pc' = IF Len(run_cuts) > 0 THEN "template" ELSE "finally"
               /\ run_status' = run_status
               /\ temp_files' = temp_files
               /\ out_file' = "base"
    /\ UNCHANGED <<run_caller, run_cuts, cuts_temp_path, run_dir>>
    /\ UNCHANGED notRun

\* generate_databook: cuts_temp_path = _build_cuts_template(request.cuts);
\* when wb.save raises the file exists and cuts_temp_path is still None
G_BuildTemplate ==
    /\ run_caller = "generate" /\ run_pc = "template"
    /\ \E raised \in BOOLEAN :
          IF raised
          THEN /\ generate_except(cuts_temp_path, temp_files \cup {TemplateName})
               /\ cuts_temp_path' = cuts_temp_path
          ELSE /\ run_pc' = "apply"
               /\ run_status' = run_status
               /\ temp_files' = temp_files \cup {TemplateName}
               /\ cuts_temp_path' = TemplateName
    /\ UNCHANGED <<run_caller, run_cuts, out_file, run_dir>>
    /\ UNCHANGED notRun

\* generate_databook: apply_cuts_to_databook(output_path, cuts_temp_path)
G_ApplyCuts ==
    /\ run_caller = "generate" /\ run_pc = "apply"
    /\ \E raised \in BOOLEAN :
          IF raised
          THEN generate_except(cuts_temp_path, temp_files) /\ out_file' = out_file
          ELSE /\ run_pc' = "finally"
               /\ run_status' = run_status
               /\ temp_files' = temp_files
               /\ out_file' = "cut"
    /\ UNCHANGED <<run_caller, run_cuts, cuts_temp_path, run_dir>>
    /\ UNCHANGED notRun

\* generate_databook: the finally clause on the success path, then the
\* FileResponse
G_Return ==
    /\ run_caller = "generate" /\ run_pc = "finally"
    /\ temp_files' = generate_finally(cuts_temp_path, temp_files)
    /\ run_pc' = "returned"
    /\ run_status' = 200
    /\ UNCHANGED <<run_caller, run_cuts, cuts_temp_path, out_file, run_dir>>
    /\ UNCHANGED notRun

\* upload_files: os.makedirs(session_dir, exist_ok=True)
U_MakeDirs ==
    /\ run_caller = "upload" /\ run_pc = "makedirs"
    /\ run_dir' = TRUE
    /\ run_pc' = "save"
    /\ UNCHANGED <<run_caller, run_cuts, cuts_temp_path, temp_files, out_file, run_status>>
    /\ UNCHANGED notRun

\* upload_files: the file extensions and the two writes, outside any try;
\* an exception here leaves the handler as an unhandled error
U_SaveFiles ==
    /\ run_caller = "upload" /\ run_pc = "save"
    /\ \E raised \in BOOLEAN :
          IF raised
          THEN run_pc' = "raised" /\ run_status' = 500
          ELSE run_pc' = "parse" /\ run_status' = run_status
    /\ UNCHANGED <<run_caller, run_cuts, cuts_temp_path, temp_files, out_file, run_dir>>
    /\ UNCHANGED notRun

\* upload_files: _parse_questions_from_file inside try; except removes the
\* session directory and raises HTTPException(400)
U_Parse ==
    /\ run_caller = "upload" /\ run_pc = "parse"
    /\ \E raised \in BOOLEAN :
          IF raised
          THEN run_pc' = "raised" /\ run_status' = 400 /\ run_dir' = FALSE
          ELSE run_pc' = "preview" /\ run_status' = run_status /\ run_dir' = run_dir
    /\ UNCHANGED <<run_caller, run_cuts, cuts_temp_path, temp_files, out_file>>
    /\ UNCHANGED notRun

\* upload_files: the raw-data preview inside try, then the session is stored
U_Preview ==
    /\ run_caller = "upload" /\ run_pc = "preview"
    /\ \E raised \in BOOLEAN :
          IF raised
          THEN run_pc' = "raised" /\ run_status' = 400 /\ run_dir' = FALSE
          ELSE run_pc' = "returned" /\ run_status' = 200 /\ run_dir' = run_dir
    /\ UNCHANGED <<run_caller, run_cuts, cuts_temp_path, temp_files, out_file>>
    /\ UNCHANGED notRun

\* the first statement of each entry point
first_step(caller) ==
    CASE caller = "main" -> "step0"
      [] caller = "generate" -> "write_options"
      [] caller = "upload" -> "makedirs"

RunNext ==
    \/ M_Step0
    \/ M_LoadOptionsFile
    \/ M_LoadData
    \/ M_IdentifyStructure
    \/ M_CreateDatabook
    \/ M_CollectCuts
    \/ M_CreateTemplate
    \/ M_ApplyCuts
    \/ M_Unlink
    \/ G_WriteOptionsFile
    \/ G_LoadOptionsFile
    \/ G_LoadData
    \/ G_IdentifyStructure
    \/ G_CreateDatabook
    \/ G_BuildTemplate
    \/ G_ApplyCuts
    \/ G_Return
    \/ U_MakeDirs
    \/ U_SaveFiles
    \/ U_Parse
    \/ U_Preview

(***************************************************************************)
(* Direct calls: one function of the pipeline applied to one input         *)
(***************************************************************************)
\* rows of a Question_Options sheet as _write_options_file and
\* clean_and_convert write them: one question, with a confirmed or detected
\* type on every row
SheetOptions == {"A or B", "Hot OR Cold", "Blue"}
SheetTypes   == {"Bipolar", "bipolar ", "Single"}

OptionsSheets ==
    {<<[q |-> "a", opt |-> o, type |-> t, ranks |-> <<>>]>> :
        o \in SheetOptions, t \in SheetTypes}
    \cup
    {<<[q |-> "a", opt |-> o1, type |-> t, ranks |-> <<>>],
       [q |-> "a", opt |-> o2, type |-> t, ranks |-> <<>>]>> :
        o1 \in SheetOptions, o2 \in SheetOptions, t \in SheetTypes}

\* question texts for the keyword scan: phrases in several cases, a text
\* with a phrase of each kind, and texts without any phrase
KeywordTexts ==
    { "Pick a colour", "Select One brand", "SINGLE CHOICE", "select all that apply",
      "Multiple Choice", "brands [MULTI]", "single choice or multiple choice",
      "Unaided Multiple" }

\* question texts for the NPS expansion, built from a scale phrase and the
\* meanings stated for the endpoints 1 and 10, with or without quotes
ScalePhrases == {"1 to 10", "rate 1-10", "Scale of 0 to 10"}
Meanings1    == {None, "bad"}
Meanings10   == {None, "good"}

means_clause(num, meaning, quoted) ==
    IF meaning = None THEN ""
    ELSE ", " \o num \o " means " \o (IF quoted THEN "\"" \o meaning \o "\"" ELSE meaning)

NpsCases ==
    {[text    |-> scale \o means_clause("1", m1, quoted) \o means_clause("10", m10, quoted),
      scale   |-> TRUE,
      m1      |-> m1,
      m10     |-> m10] :
        scale \in ScalePhrases, m1 \in Meanings1, m10 \in Meanings10, quoted \in BOOLEAN}
    \cup {[text |-> "rate us, 1 means \"bad\"", scale |-> FALSE, m1 |-> "bad", m10 |-> None]}

\* the options collected from the grid
GridOptions == {<<>>, <<"1">>, <<"Blue", "Red">>}

\* the cells split_multi_select_options is tried on: every string of at most
\* MaxTextLen characters over a letter, the comma, the parentheses and a blank
CellAlphabet == {"a", ",", "(", ")", " "}

RECURSIVE CellTextsOfLen(_)
CellTextsOfLen(n) ==
    IF n = 0 THEN {""}
    ELSE {s \o c : s \in CellTextsOfLen(n - 1), c \in CellAlphabet}

CellTexts == UNION {CellTextsOfLen(n) : n \in 0..MaxTextLen}

\* raw-data columns handed to the flat tabulators: every column of at most
\* MaxRespondents cells, the all-empty ones included
SeriesCells == {NaN, " ", "Response", "Red", "Red, Blue"}

RECURSIVE SeriesOfLen(_)
SeriesOfLen(n) ==
    IF n = 0 THEN {<<>>}
    ELSE {Append(s, c) : s \in SeriesOfLen(n - 1), c \in SeriesCells}

SeriesSet == UNION {SeriesOfLen(n) : n \in 0..MaxRespondents}

\* the options of the question: none loaded, or two
TabOptions == {<<>>, <<"Red", "Blue">>}

\* a matrix question of two columns: the sub-header row of df_full (plain
\* attribute names, or "rank - attribute" for a multi-select matrix) and the
\* respondent rows of self.df
MatrixHeaders == {<<"Taste", "Price">>, <<"Good - Taste", "Good - Price">>}
MatrixCells   == {NaN, " ", "Good"}
MatrixRows    == {<<a, b>> : a \in MatrixCells, b \in MatrixCells}

RECURSIVE FramesOfLen(_)
FramesOfLen(n) ==
    IF n = 0 THEN {<<>>}
    ELSE {Append(f, r) : f \in FramesOfLen(n - 1), r \in MatrixRows}

Frames == UNION {FramesOfLen(n) : n \in 0..MaxRespondents}

\* a bipolar question over two raw columns: row 1 of df_full over all_cols
\* (a sub-header may carry a "question - dimension" prefix, be missing or be
\* blank) and the respondent rows of self.df
BipolarHeaders ==
    { <<"Taste", "Smell">>, <<"Q - Taste", NaN>>, <<"taste test", "Look">>,
      <<"Look", "SMELL">>, <<"Smell", "Smell">>, <<" ", "Look">> }
BipolarRows ==
    { <<"Sweet", "Sour">>, <<"Sour", NaN>>, <<" ", "Sweet">>, <<NaN, " ">> }

RECURSIVE BipolarFramesOfLen(_)
BipolarFramesOfLen(n) ==
    IF n = 0 THEN {<<>>}
    ELSE {Append(f, r) : f \in BipolarFramesOfLen(n - 1), r \in BipolarRows}

BipolarFrames == UNION {BipolarFramesOfLen(n) : n \in 0..MaxRespondents}

\* category lists of a cut: two, one, and sixteen categories
SixteenCategories ==
    <<"c1", "c2", "c3", "c4", "c5", "c6", "c7", "c8",
      "c9", "c10", "c11", "c12", "c13", "c14", "c15", "c16">>
CategoryLists == {<<"M", "F">>, <<"North">>, SixteenCategories}

\* a cut as the terminal dialogue or a /generate request supplies it
CutItems == [index : {1, 2, 9}, raw_col_index : {5, 8}, categories : CategoryLists]

\* the cuts lists: one or two cuts
CutConfigs == {<<x>> : x \in CutItems} \cup {<<x, y>> : x, y \in CutItems}

\* the cells one cut writes: row cut['index'], label, raw column, parameter
\* label, then the categories from column 4 (lines 1866-1871)
cut_cells(cut) ==
    [x \in {<<cut.index, c>> : c \in 1..(3 + Len(cut.categories))} |->
        IF x[2] = 1 THEN StrCell("Cut #" \o ToString(cut.index) \o " column =")
        ELSE IF x[2] = 2 THEN IntCell(cut.raw_col_index)
        ELSE IF x[2] = 3
        THEN StrCell("Cut #" \o ToString(cut.index) \o " parameter =")
        ELSE StrCell(cut.categories[x[2] - 3])]

\* ws.cell(row, column, value) for every cell of written, over sheet
write_cells(sheet, written) ==
    [x \in DOMAIN sheet \cup DOMAIN written |->
        IF x \in DOMAIN written THEN written[x] ELSE sheet[x]]

\* create_cuts_template_from_config: the active sheet of the saved workbook
RECURSIVE create_cuts_template_from_config(_)
create_cuts_template_from_config(cuts_config) ==
    IF cuts_config = <<>> THEN <<>>
    ELSE write_cells(
            create_cuts_template_from_config(
                SubSeq(cuts_config, 1, Len(cuts_config) - 1)),
            cut_cells(cuts_config[Len(cuts_config)]))

\* _build_cuts_template: the active sheet of the saved workbook
RECURSIVE build_cuts_template(_)
build_cuts_template(request_cuts) ==
    IF request_cuts = <<>> THEN <<>>
    ELSE write_cells(
            build_cuts_template(SubSeq(request_cuts, 1, Len(request_cuts) - 1)),
            cut_cells(request_cuts[Len(request_cuts)]))

\* the templates either writer saves
CutTemplates ==
    {create_cuts_template_from_config(c) : c \in CutConfigs}
        \cup {build_cuts_template(c) : c \in CutConfigs}

FnNames == {"load_options_file", "get_auto_type", "expand_nps_if_needed", "split_multi_select_options",
            "process_single_select", "process_multi_select", "process_matrix", "process_bipolar", "create_cuts_template_from_config", "_build_cuts_template", "load_cuts_from_template"}

\* the argument tuples tried for each function
FnInputs(name) ==
    CASE name = "load_options_file" -> {<<rows>> : rows \in OptionsSheets}
      [] name = "get_auto_type" -> {<<t, r, <<"Blue">>, b>> : t \in KeywordTexts, r \in {<<>>, <<"Good">>}, b \in BOOLEAN}
      [] name = "expand_nps_if_needed" -> {<<c.text, o>> : c \in NpsCases, o \in GridOptions}
      [] name = "split_multi_select_options" -> {<<t>> : t \in CellTexts}
      [] name \in {"process_single_select", "process_multi_select"} -> {<<s, o>> : s \in SeriesSet, o \in TabOptions}
      [] name = "process_matrix" -> {<<h, f, <<"Taste", "Price">>, <<"Good", "Bad">>>> : h \in MatrixHeaders, f \in Frames}
      [] name = "process_bipolar" -> {<<h, f, <<"Taste", "Smell">>, <<<<"Sweet", "Sour">>, <<"Sweet", "Sour">>>>>> : h \in BipolarHeaders, f \in BipolarFrames}
      [] name = "create_cuts_template_from_config" -> {<<c>> : c \in CutConfigs}
      [] name = "_build_cuts_template" -> {<<c>> : c \in CutConfigs}
      [] name = "load_cuts_from_template" -> {<<t>> : t \in CutTemplates}

returns(value) ==
    /\ fn_ret' = value
    /\ fn_pc' = "returned"
    /\ UNCHANGED <<fn_name, fn_args>>
    /\ UNCHANGED notFn

\* SurveyDatabookV2.load_options_file on the sheet
Call_load_options_file ==
    /\ fn_pc = "call" /\ fn_name = "load_options_file"
    /\ returns(load_options_file(fn_args[1]))

\* get_auto_type(q_text, rank_labels, options, is_bipolar)
Call_get_auto_type ==
    /\ fn_pc = "call" /\ fn_name = "get_auto_type"
    /\ returns(get_auto_type(fn_args[1], fn_args[2], fn_args[3], fn_args[4]))

\* expand_nps_if_needed(q_text, options)
Call_expand_nps_if_needed ==
    /\ fn_pc = "call" /\ fn_name = "expand_nps_if_needed"
    /\ returns(expand_nps_if_needed(fn_args[1], fn_args[2]))

\* the pieces of s between the positions of points, in order
pieces(s, points) ==
    LET cuts_at == <<0>> \o seq_of_indices(points, 1, Len(s)) \o <<Len(s) + 1>>
    IN  [k \in 1..(Len(cuts_at) - 1) |-> SubSeq(s, cuts_at[k] + 1, cuts_at[k + 1] - 1)]

\* the pattern ,\s*(?![^()]*\)) matches at the comma of position i: the
\* lookahead fails exactly when the first parenthesis after the comma is a
\* closing one (the blanks \s* takes belong to [^()] as well)
pattern_matches_at(s, i) ==
    /\ Ch(s, i) = ","
    /\ LET after == {j \in paren_positions(s) : j > i}
       IN  after = {} \/ Ch(s, SetMin(after)) = "("

\* SurveyDatabookV2.split_multi_select_options: re.split on the pattern, the
\* parts stripped, the empty ones dropped (the blanks a match takes after
\* its comma are removed by the strip as well)
split_multi_select_options(text) ==
    LET parts == pieces(text, {i \in 1..Len(text) : pattern_matches_at(text, i)})
    IN  SelectSeq([k \in 1..Len(parts) |-> Strip(parts[k])], LAMBDA p : p # "")

Call_split_multi_select_options ==
    /\ fn_pc = "call" /\ fn_name = "split_multi_select_options"
    /\ returns(split_multi_select_options(fn_args[1]))

\* a float with one decimal, held in tenths; the value a ZeroDivisionError
\* leaves in place of a result
Float1(tenths)    == [kind |-> "float", tenths |-> tenths]
ZeroDivisionError == [kind |-> "ZeroDivisionError", tenths |-> 0]

\* round((count / total) * 100, 1) in tenths of a percent (no quotient of the
\* modelled sizes lies halfway between two tenths)
round_pct(count, total) == (2000 * count + total) \div (2 * total)

\* the percentage expression without its guard
percentage_unguarded(count, total_base) ==
    IF total_base # 0 THEN Float1(round_pct(count, total_base)) ELSE ZeroDivisionError

\* round((count / total_base) * 100, 1) if total_base > 0 else 0.0
percentage(count, total_base) ==
    IF total_base > 0 THEN Float1(round_pct(count, total_base)) ELSE Float1(0)

\* Series.value_counts(): the distinct values by falling count, equal counts
\* in order of first appearance
count_of(values, v) == Cardinality({i \in 1..Len(values) : values[i] = v})

RECURSIVE by_count(_, _)
by_count(values, pending) ==
    IF pending = {} THEN <<>>
    ELSE LET best == CHOOSE i \in pending :
                        \A j \in pending :
                           \/ count_of(values, values[i]) > count_of(values, values[j])
                           \/ /\ count_of(values, values[i]) = count_of(values, values[j])
                              /\ i <= j
         IN  <<values[best]>> \o by_count(values, pending \ {best})

value_counts(values) == by_count(values, first_occurrences(values))

\* the result rows both flat tabulators build from the counts and the base
result_rows(values, options, total_base) ==
    LET listed == IF options # <<>> THEN options ELSE value_counts(values)
    IN  [k \in 1..Len(listed) |->
            [option     |-> listed[k],
             count      |-> count_of(values, listed[k]),
             percentage |-> percentage(count_of(values, listed[k]), total_base),
             base       |-> total_base]]

\* SurveyDatabookV2.process_single_select
process_single_select(series, options) ==
    LET series_clean == SelectSeq(series, LAMBDA v :
                            /\ v # NaN
                            /\ v # "Response"
                            /\ v # "Open-Ended Response"
                            /\ Strip(v) # "")
    IN  result_rows(series_clean, options, Len(series_clean))

RECURSIVE flatten(_)
flatten(lists) == IF lists = <<>> THEN <<>> ELSE Head(lists) \o flatten(Tail(lists))

\* SurveyDatabookV2.process_multi_select
process_multi_select(series, options) ==
    LET dropna      == SelectSeq(series, LAMBDA v : v # NaN)
        counted     == SelectSeq(dropna, LAMBDA v :
                           Strip(v) # "" /\ Strip(v) \notin {"Response", "Open-Ended Response"})
        all_options == flatten([k \in 1..Len(counted) |->
                                   split_multi_select_options(Strip(counted[k]))])
    IN  result_rows(all_options, options, Len(dropna))

Call_process_single_select ==
    /\ fn_pc = "call" /\ fn_name = "process_single_select"
    /\ returns(process_single_select(fn_args[1], fn_args[2]))

Call_process_multi_select ==
    /\ fn_pc = "call" /\ fn_name = "process_multi_select"
    /\ returns(process_multi_select(fn_args[1], fn_args[2]))

\* position of the first " - " of raw, 0 when there is none
separator_at(raw) ==
    LET hits == {i \in 1..(Len(raw) - 2) : SubSeq(raw, i, i + 2) = " - "}
    IN  IF hits = {} THEN 0 ELSE SetMin(hits)

\* process_matrix: the column is passed over by the loop that builds
\* column_mapping
passed_over(header_val, is_multi_select_matrix) ==
    \/ header_val = NaN
    \/ IF is_multi_select_matrix
       THEN separator_at(Strip(header_val)) = 0
       ELSE Strip(header_val) = ""

\* process_matrix: the entry of column_mapping for a column that is not
\* passed over
column_mapping_of(header_val, at_col, rank_labels, is_multi_select_matrix) ==
    LET raw == Strip(header_val)
        at  == separator_at(raw)
    IN  IF is_multi_select_matrix
        THEN LET left  == Strip(SubSeq(raw, 1, at - 1))
                 right == Strip(SubSeq(raw, at + 3, Len(raw)))
                 right_is_rank ==
                     /\ \A r \in 1..Len(rank_labels) : rank_labels[r] # left
                     /\ \E r \in 1..Len(rank_labels) : rank_labels[r] = right
             IN  [col_idx    |-> at_col,
                  attribute  |-> IF right_is_rank THEN left ELSE right,
                  rank_label |-> IF right_is_rank THEN right ELSE left]
        ELSE [col_idx |-> at_col, attribute |-> raw, rank_label |-> None]

\* SurveyDatabookV2.process_matrix on the columns of one question: headers is
\* row 1 of df_full over all_cols, frame the rows of self.df over the same columns
process_matrix(headers, frame, options, rank_labels) ==
    LET all_cols == 1..Len(headers)
        combined_separators ==
            Cardinality({c \in all_cols : headers[c] # NaN /\ separator_at(headers[c]) > 0})
        is_multi_select_matrix ==
            2 * combined_separators >= Max(2, Len(headers))
        mapping(c) == column_mapping_of(headers[c], c, rank_labels, is_multi_select_matrix)
        mapped == {c \in all_cols : ~passed_over(headers[c], is_multi_select_matrix)}
        total_responses == Len(frame)
        count(option_attribute, rank_label) ==
            IF is_multi_select_matrix
            THEN Cardinality({<<row_idx, c>> \in (1..Len(frame)) \X mapped :
                                 /\ mapping(c).attribute = option_attribute
                                 /\ mapping(c).rank_label = rank_label
                                 /\ frame[row_idx][c] # NaN
                                 /\ Strip(frame[row_idx][c]) # ""})
            ELSE Cardinality({<<row_idx, c>> \in (1..Len(frame)) \X mapped :
                                 /\ mapping(c).attribute = option_attribute
                                 /\ frame[row_idx][c] # NaN
                                 /\ Strip(frame[row_idx][c]) = rank_label})
    IN  [data |-> [a \in 1..Len(options) |->
                     [attribute |-> options[a],
                      cells     |-> [r \in 1..Len(rank_labels) |->
                                       [count      |-> count(options[a], rank_labels[r]),
                                        percentage |-> percentage(count(options[a], rank_labels[r]),
                                                                  total_responses)]]]],
         base |-> total_responses,
         is_multi_select_matrix |-> is_multi_select_matrix]

Call_process_matrix ==
    /\ fn_pc = "call" /\ fn_name = "process_matrix"
    /\ returns(process_matrix(fn_args[1], fn_args[2], fn_args[3], fn_args[4]))

\* process_bipolar: the dimension a sub-header names
dimension_of(sub_hdr) ==
    LET sub_hdr_str == Strip(sub_hdr)
        at == separator_at(sub_hdr_str)
    IN  IF at > 0 THEN Strip(SubSeq(sub_hdr_str, at + 3, Len(sub_hdr_str)))
        ELSE sub_hdr_str

\* process_bipolar: dim_to_col after the columns 1..n of sub_headers, as the
\* list of its (key, val) items in insertion order; val is the 0-based column
RECURSIVE dim_to_col_of(_, _)
dim_to_col_of(sub_headers, n) ==
    IF n = 0 THEN <<>>
    ELSE LET d == dim_to_col_of(sub_headers, n - 1)
         IN  IF sub_headers[n] = NaN THEN d
             ELSE LET key == dimension_of(sub_headers[n])
                  IN  IF \E i \in 1..Len(d) : d[i].key = key
                      THEN [i \in 1..Len(d) |->
                              IF d[i].key = key THEN [key |-> key, val |-> n - 1] ELSE d[i]]
                      ELSE Append(d, [key |-> key, val |-> n - 1])

\* the lookup falling back on the first column of dim_to_col instead of None
col_idx_of_first_column(dim_to_col, opt) ==
    LET exact == {i \in 1..Len(dim_to_col) : dim_to_col[i].key = opt}
        loose == {i \in 1..Len(dim_to_col) :
                     \/ Contains(Lower(dim_to_col[i].key), Lower(opt))
                     \/ Contains(Lower(opt), Lower(dim_to_col[i].key))}
    IN  IF exact # {} THEN dim_to_col[SetMin(exact)].val
        ELSE IF loose # {} THEN dim_to_col[SetMin(loose)].val
        ELSE IF dim_to_col # <<>> THEN dim_to_col[1].val
        ELSE -1

\* process_bipolar: dim_to_col.get(opt), then the first item whose key holds
\* opt or is held by it, letter case aside; -1 for None
col_idx_of(dim_to_col, opt) ==
    LET exact == {i \in 1..Len(dim_to_col) : dim_to_col[i].key = opt}
        loose == {i \in 1..Len(dim_to_col) :
                     \/ Contains(Lower(dim_to_col[i].key), Lower(opt))
                     \/ Contains(Lower(opt), Lower(dim_to_col[i].key))}
    IN  IF exact # {} THEN dim_to_col[SetMin(exact)].val
        ELSE IF loose # {} THEN dim_to_col[SetMin(loose)].val
        ELSE -1

\* SurveyDatabookV2.process_bipolar on the columns of one question
process_bipolar(sub_headers, frame, options, pole_pairs) ==
    LET dim_to_col == dim_to_col_of(sub_headers, Len(sub_headers))
        brow(k) ==
            LET at_col   == col_idx_of(dim_to_col, options[k])
                col_data == {i \in 1..Len(frame) :
                                /\ frame[i][at_col + 1] # NaN
                                /\ Strip(frame[i][at_col + 1]) # ""}
            IN  IF at_col = -1
                THEN [option |-> options[k], pole_1 |-> pole_pairs[k][1],
                      pole_2 |-> pole_pairs[k][2], col_idx |-> -1,
                      count_p1 |-> 0, count_p2 |-> 0, n |-> 0]
                ELSE [option |-> options[k], pole_1 |-> pole_pairs[k][1],
                      pole_2 |-> pole_pairs[k][2], col_idx |-> at_col,
                      count_p1 |-> Cardinality({i \in col_data :
                                       frame[i][at_col + 1] = pole_pairs[k][1]}),
                      count_p2 |-> Cardinality({i \in col_data :
                                       frame[i][at_col + 1] = pole_pairs[k][2]}),
                      n |-> Cardinality(col_data)]
    IN  [is_bipolar |-> TRUE,
         rows |-> [k \in 1..Min(Len(options), Len(pole_pairs)) |-> brow(k)],
         base |-> Len(frame)]

Call_process_bipolar ==
    /\ fn_pc = "call" /\ fn_name = "process_bipolar"
    /\ returns(process_bipolar(fn_args[1], fn_args[2], fn_args[3], fn_args[4]))

Call_create_cuts_template_from_config ==
    /\ fn_pc = "call" /\ fn_name = "create_cuts_template_from_config"
    /\ returns(create_cuts_template_from_config(fn_args[1]))

Call__build_cuts_template ==
    /\ fn_pc = "call" /\ fn_name = "_build_cuts_template"
    /\ returns(build_cuts_template(fn_args[1]))

\* val in (None, "")
is_blank(v) == v.t = "none" \/ (v.t = "str" /\ v.s = "")

\* int(text) of a run of digits
RECURSIVE int_of_digits(_, _)
int_of_digits(s, acc) ==
    IF s = "" THEN acc
    ELSE int_of_digits(Tail(s),
            10 * acc + (CHOOSE d \in 0..9 : ToString(d) = Ch(s, 1)))

\* re.search(r"Cut\s*#(\d+)", label) at position i: the digits, or NoMatch
cut_label_at(label, i) ==
    LET after == LStrip(SubSeq(label, i + 3, Len(label)))
        digits == TakeDigits(SubSeq(after, 2, Len(after)))
    IN  IF /\ SubSeq(label, i, i + 2) = "Cut"
           /\ StartsWith(after, "#")
           /\ digits # ""
        THEN digits
        ELSE NoMatch

\* cut_index of lines 1375-1379, None when the label has no "Cut #<n>"
cut_index_of(label) ==
    LET hits == {i \in 1..(Len(label) - 2) :
                    cut_label_at(label, i) # NoMatch}
    IN  IF hits = {} THEN None
        ELSE int_of_digits(cut_label_at(label, SetMin(hits)), 0)

\* the categories of a row: columns 4..18 up to the first blank cell
RECURSIVE row_categories(_, _, _)
row_categories(sheet, r, c) ==
    IF c >= 4 + 15 \/ is_blank(cell(sheet, r, c)) THEN <<>>
    ELSE <<Strip(cell_text(cell(sheet, r, c)))>>
            \o row_categories(sheet, r, c + 1)

\* int(raw_col_val) raises ValueError
int_raises(v) == v.t # "int" /\ ~IsDigitStr(Strip(v.s))

\* int(raw_col_val)
raw_col_index_of(v) ==
    IF v.t = "int" THEN v.n ELSE int_of_digits(Strip(v.s), 0)

\* the loop of lines 1353-1385 from row r on: rows 1..8
RECURSIVE load_rows(_, _)
load_rows(sheet, r) ==
    IF r >= 9 THEN <<>>
    ELSE LET raw_col_val == cell(sheet, r, 2)
             categories == row_categories(sheet, r, 4)
             label == cell(sheet, r, 1)
         IN  (IF is_blank(raw_col_val)
                 \/ int_raises(raw_col_val)
                 \/ categories = <<>>
              THEN <<>>
              ELSE << [index |-> IF is_str(label) THEN cut_index_of(label.s)
                                 ELSE None,
                       raw_col_index |-> raw_col_index_of(raw_col_val),
                       categories |-> categories] >>)
                \o load_rows(sheet, r + 1)

\* load_cuts_from_template on the template's active sheet
load_cuts_from_template(sheet) == load_rows(sheet, 1)

Call_load_cuts_from_template ==
    /\ fn_pc = "call" /\ fn_name = "load_cuts_from_template"
    /\ returns(load_cuts_from_template(fn_args[1]))

FnNext ==
    \/ Call_load_options_file
    \/ Call_get_auto_type
    \/ Call_expand_nps_if_needed
    \/ Call_split_multi_select_options
    \/ Call_process_single_select
    \/ Call_process_multi_select
    \/ Call_process_matrix
    \/ Call_process_bipolar
    \/ Call_create_cuts_template_from_config
    \/ Call__build_cuts_template
    \/ Call_load_cuts_from_template

(***************************************************************************)
(* Specifications                                                          *)
(***************************************************************************)
\* main(): clean_and_convert on one grid, then load_options_file; the
\* service has no session
InitStep1 ==
    /\ df \in Grids
    /\ idx = 0
    /\ current_q_text = None
    /\ current_options = <<>>
    /\ current_rank_labels = <<>>
    /\ current_is_bipolar = FALSE
    /\ in_question = FALSE
    /\ questions = <<>>
    /\ manual_type = <<>>
    /\ options_file = <<>>
    /\ question_config = <<>>
    /\ pc = "scan"
    /\ seg_hdr = -1
    /\ seg_log = <<>>
    /\ sessions = <<>>
    /\ session_dirs = {}
    /\ disk_options = [sid \in SessionIds |-> None]
    /\ disk_output = [sid \in SessionIds |-> "absent"]
    /\ used_ids = {}
    /\ response = Resp("none", "none", 0)
    /\ columns = <<>>
    /\ col_idx = 0
    /\ current_question = 0
    /\ question_counter = 0
    /\ question_map = <<>>
    /\ metadata_columns = <<>>
    /\ analysis = <<>>
    /\ cuts = <<>>
    /\ ws = <<>>
    /\ row = 6
    /\ q_pos = 0
    /\ book_pc = "idle"
    /\ blocks = <<>>
    /\ cut_blocks = <<>>
    /\ b_pos = 0
    /\ synth_log = {}
    /\ cut_log = {}
    /\ run_caller = "none"
    /\ run_pc = "idle"
    /\ run_cuts = <<>>
    /\ cuts_temp_path = None
    /\ temp_files = {}
    /\ out_file = "absent"
    /\ run_dir = FALSE
    /\ run_status = 0
    /\ fn_name = "none"
    /\ fn_args = <<>>
    /\ fn_ret = <<>>
    /\ fn_pc = "idle"

SpecStep1 == InitStep1 /\ [][Step1Next]_vars

\* the iterations of the scanning loop and the statement that follows it
ScanStep == CC_EmptyRow \/ CC_QuestionHeader \/ CC_OptionRow \/ CC_SaveLast

\* the grids made of a header, a bipolar sub-label, a row of pole labels
\* and an option row
ScanGrids ==
    {g \in Grids :
        \A i \in 1..Len(g) : g[i][1] \in {"Q1 a [single", "A or B", " ", "Blue"}}

\* clean_and_convert started on one of these grids
InitStep1Fair ==
    /\ df \in ScanGrids
    /\ idx = 0
    /\ current_q_text = None
    /\ current_options = <<>>
    /\ current_rank_labels = <<>>
    /\ current_is_bipolar = FALSE
    /\ in_question = FALSE
    /\ questions = <<>>
    /\ manual_type = <<>>
    /\ options_file = <<>>
    /\ question_config = <<>>
    /\ pc = "scan"
    /\ seg_hdr = -1
    /\ seg_log = <<>>
    /\ sessions = <<>>
    /\ session_dirs = {}
    /\ disk_options = [sid \in SessionIds |-> None]
    /\ disk_output = [sid \in SessionIds |-> "absent"]
    /\ used_ids = {}
    /\ response = Resp("none", "none", 0)
    /\ columns = <<>>
    /\ col_idx = 0
    /\ current_question = 0
    /\ question_counter = 0
    /\ question_map = <<>>
    /\ metadata_columns = <<>>
    /\ analysis = <<>>
    /\ cuts = <<>>
    /\ ws = <<>>
    /\ row = 6
    /\ q_pos = 0
    /\ book_pc = "idle"
    /\ blocks = <<>>
    /\ cut_blocks = <<>>
    /\ b_pos = 0
    /\ synth_log = {}
    /\ cut_log = {}
    /\ run_caller = "none"
    /\ run_pc = "idle"
    /\ run_cuts = <<>>
    /\ cuts_temp_path = None
    /\ temp_files = {}
    /\ out_file = "absent"
    /\ run_dir = FALSE
    /\ run_status = 0
    /\ fn_name = "none"
    /\ fn_args = <<>>
    /\ fn_ret = <<>>
    /\ fn_pc = "idle"

\* clean_and_convert as a running program: while the scan has a next
\* statement it executes it; the type validation waits for the terminal
SpecStep1Fair == InitStep1Fair /\ [][Step1Next]_vars /\ WF_vars(ScanStep)

\* the HTTP service, started with no session; main() is not running
InitApi ==
    /\ df = <<>>
    /\ idx = 0
    /\ current_q_text = None
    /\ current_options = <<>>
    /\ current_rank_labels = <<>>
    /\ current_is_bipolar = FALSE
    /\ in_question = FALSE
    /\ questions = <<>>
    /\ manual_type = <<>>
    /\ options_file = <<>>
    /\ question_config = <<>>
    /\ pc = "idle"
    /\ seg_hdr = -1
    /\ seg_log = <<>>
    /\ sessions = <<>>
    /\ session_dirs = {}
    /\ disk_options = [sid \in SessionIds |-> None]
    /\ disk_output = [sid \in SessionIds |-> "absent"]
    /\ used_ids = {}
    /\ response = Resp("none", "none", 0)
    /\ columns = <<>>
    /\ col_idx = 0
    /\ current_question = 0
    /\ question_counter = 0
    /\ question_map = <<>>
    /\ metadata_columns = <<>>
    /\ analysis = <<>>
    /\ cuts = <<>>
    /\ ws = <<>>
    /\ row = 6
    /\ q_pos = 0
    /\ book_pc = "idle"
    /\ blocks = <<>>
    /\ cut_blocks = <<>>
    /\ b_pos = 0
    /\ synth_log = {}
    /\ cut_log = {}
    /\ run_caller = "none"
    /\ run_pc = "idle"
    /\ run_cuts = <<>>
    /\ cuts_temp_path = None
    /\ temp_files = {}
    /\ out_file = "absent"
    /\ run_dir = FALSE
    /\ run_status = 0
    /\ fn_name = "none"
    /\ fn_args = <<>>
    /\ fn_ret = <<>>
    /\ fn_pc = "idle"

SpecApi == InitApi /\ [][ApiNext]_vars

\* identify_structure on one header row
InitStruct ==
    /\ df = <<>>
    /\ idx = 0
    /\ current_q_text = None
    /\ current_options = <<>>
    /\ current_rank_labels = <<>>
    /\ current_is_bipolar = FALSE
    /\ in_question = FALSE
    /\ questions = <<>>
    /\ manual_type = <<>>
    /\ options_file = <<>>
    /\ question_config = <<>>
    /\ pc = "idle"
    /\ seg_hdr = -1
    /\ seg_log = <<>>
    /\ sessions = <<>>
    /\ session_dirs = {}
    /\ disk_options = [sid \in SessionIds |-> None]
    /\ disk_output = [sid \in SessionIds |-> "absent"]
    /\ used_ids = {}
    /\ response = Resp("none", "none", 0)
    /\ columns \in HeaderLists
    /\ col_idx = 0
    /\ current_question = 0
    /\ question_counter = 0
    /\ question_map = <<>>
    /\ metadata_columns = <<>>
    /\ analysis = <<>>
    /\ cuts = <<>>
    /\ ws = <<>>
    /\ row = 6
    /\ q_pos = 0
    /\ book_pc = "idle"
    /\ blocks = <<>>
    /\ cut_blocks = <<>>
    /\ b_pos = 0
    /\ synth_log = {}
    /\ cut_log = {}
    /\ run_caller = "none"
    /\ run_pc = "idle"
    /\ run_cuts = <<>>
    /\ cuts_temp_path = None
    /\ temp_files = {}
    /\ out_file = "absent"
    /\ run_dir = FALSE
    /\ run_status = 0
    /\ fn_name = "none"
    /\ fn_args = <<>>
    /\ fn_ret = <<>>
    /\ fn_pc = "idle"

SpecStruct == InitStruct /\ [][StructNext]_vars

\* create_databook on one analysis, then apply_cuts_to_databook
InitBook ==
    /\ df = <<>>
    /\ idx = 0
    /\ current_q_text = None
    /\ current_options = <<>>
    /\ current_rank_labels = <<>>
    /\ current_is_bipolar = FALSE
    /\ in_question = FALSE
    /\ questions = <<>>
    /\ manual_type = <<>>
    /\ options_file = <<>>
    /\ question_config = <<>>
    /\ pc = "idle"
    /\ seg_hdr = -1
    /\ seg_log = <<>>
    /\ sessions = <<>>
    /\ session_dirs = {}
    /\ disk_options = [sid \in SessionIds |-> None]
    /\ disk_output = [sid \in SessionIds |-> "absent"]
    /\ used_ids = {}
    /\ response = Resp("none", "none", 0)
    /\ columns = <<>>
    /\ col_idx = 0
    /\ current_question = 0
    /\ question_counter = 0
    /\ question_map = <<>>
    /\ metadata_columns = <<>>
    /\ analysis \in Analyses
    /\ cuts \in CutLists
    /\ ws = title_cells(Len(analysis))
    /\ row = 6
    /\ q_pos = 0
    /\ book_pc = "create"
    /\ blocks = <<>>
    /\ cut_blocks = <<>>
    /\ b_pos = 0
    /\ synth_log = {}
    /\ cut_log = {}
    /\ run_caller = "none"
    /\ run_pc = "idle"
    /\ run_cuts = <<>>
    /\ cuts_temp_path = None
    /\ temp_files = {}
    /\ out_file = "absent"
    /\ run_dir = FALSE
    /\ run_status = 0
    /\ fn_name = "none"
    /\ fn_args = <<>>
    /\ fn_ret = <<>>
    /\ fn_pc = "idle"

SpecBook == InitBook /\ [][BookNext]_vars

\* one run of an entry point; the output path may hold the databook of an
\* earlier run, and /generate runs inside the directory of its session
InitRun ==
    /\ df = <<>>
    /\ idx = 0
    /\ current_q_text = None
    /\ current_options = <<>>
    /\ current_rank_labels = <<>>
    /\ current_is_bipolar = FALSE
    /\ in_question = FALSE
    /\ questions = <<>>
    /\ manual_type = <<>>
    /\ options_file = <<>>
    /\ question_config = <<>>
    /\ pc = "idle"
    /\ seg_hdr = -1
    /\ seg_log = <<>>
    /\ sessions = <<>>
    /\ session_dirs = {}
    /\ disk_options = [sid \in SessionIds |-> None]
    /\ disk_output = [sid \in SessionIds |-> "absent"]
    /\ used_ids = {}
    /\ response = Resp("none", "none", 0)
    /\ columns = <<>>
    /\ col_idx = 0
    /\ current_question = 0
    /\ question_counter = 0
    /\ question_map = <<>>
    /\ metadata_columns = <<>>
    /\ analysis = <<>>
    /\ cuts = <<>>
    /\ ws = <<>>
    /\ row = 6
    /\ q_pos = 0
    /\ book_pc = "idle"
    /\ blocks = <<>>
    /\ cut_blocks = <<>>
    /\ b_pos = 0
    /\ synth_log = {}
    /\ cut_log = {}
    /\ run_caller \in RunCallers
    /\ run_pc = first_step(run_caller)
    /\ run_cuts \in (IF run_caller = "upload" THEN {<<>>} ELSE CutLists)
    /\ cuts_temp_path = None
    /\ temp_files = {}
    /\ out_file \in (IF run_caller = "upload" THEN {"absent"} ELSE {"absent", "stale"})
    /\ run_dir = (run_caller = "generate")
    /\ run_status = 0
    /\ fn_name = "none"
    /\ fn_args = <<>>
    /\ fn_ret = <<>>
    /\ fn_pc = "idle"

SpecRun == InitRun /\ [][RunNext]_vars

\* one function applied to one of its inputs
InitFn ==
    /\ df = <<>>
    /\ idx = 0
    /\ current_q_text = None
    /\ current_options = <<>>
    /\ current_rank_labels = <<>>
    /\ current_is_bipolar = FALSE
    /\ in_question = FALSE
    /\ questions = <<>>
    /\ manual_type = <<>>
    /\ options_file = <<>>
    /\ question_config = <<>>
    /\ pc = "idle"
    /\ seg_hdr = -1
    /\ seg_log = <<>>
    /\ sessions = <<>>
    /\ session_dirs = {}
    /\ disk_options = [sid \in SessionIds |-> None]
    /\ disk_output = [sid \in SessionIds |-> "absent"]
    /\ used_ids = {}
    /\ response = Resp("none", "none", 0)
    /\ columns = <<>>
    /\ col_idx = 0
    /\ current_question = 0
    /\ question_counter = 0
    /\ question_map = <<>>
    /\ metadata_columns = <<>>
    /\ analysis = <<>>
    /\ cuts = <<>>
    /\ ws = <<>>
    /\ row = 6
    /\ q_pos = 0
    /\ book_pc = "idle"
    /\ blocks = <<>>
    /\ cut_blocks = <<>>
    /\ b_pos = 0
    /\ synth_log = {}
    /\ cut_log = {}
    /\ run_caller = "none"
    /\ run_pc = "idle"
    /\ run_cuts = <<>>
    /\ cuts_temp_path = None
    /\ temp_files = {}
    /\ out_file = "absent"
    /\ run_dir = FALSE
    /\ run_status = 0
    /\ fn_name \in FnNames
    /\ fn_args \in FnInputs(fn_name)
    /\ fn_ret = <<>>
    /\ fn_pc = "call"

SpecFn == InitFn /\ [][FnNext]_vars

(***************************************************************************)
(* Properties of the segmenter                                             *)
(***************************************************************************)
log_detects_bipolar(e) == detect_bipolar_question(df, e.hdr).sub_labels # <<>>
log_detects_matrix(e)  == detect_matrix(df, e.hdr)[2] # <<>>
log_detects_scale(e)   == detect_horizontal_scale(df, e.hdr) # <<>>

\* C3: a question record is emitted exactly when an open segment is closed
\* (blank first cell, next header row, end of grid) having accumulated at
\* least one option or rank label; a segment with neither emits nothing and
\* a segment with at least one is never dropped.
C3_EmitIffAccumulated ==
    /\ \A k \in 1..Len(seg_log) :
          seg_log[k].emitted <=>
             (seg_log[k].options # <<>> \/ seg_log[k].rank_labels # <<>>)
    /\ Len(questions) = Cardinality({k \in 1..Len(seg_log) : seg_log[k].emitted})

\* C4: the detectors run in the order bipolar, matrix, horizontal scale,
\* plain list and the first match decides the segment: what the matching
\* detector produced is what the segment holds when it is closed.
C4_FirstMatchDecides ==
    \A k \in 1..Len(seg_log) :
        LET e     == seg_log[k]
            bip   == detect_bipolar_question(df, e.hdr)
            mx    == detect_matrix(df, e.hdr)
            scale == detect_horizontal_scale(df, e.hdr)
        IN  IF bip.sub_labels # <<>>
            THEN e.is_bipolar /\ e.options = bip.sub_labels
                    /\ Len(e.rank_labels) = 2
            ELSE IF mx[2] # <<>>
            THEN ~e.is_bipolar /\ e.options = mx[1] /\ e.rank_labels = mx[2]
            ELSE IF scale # <<>>
            THEN ~e.is_bipolar /\ e.options = scale /\ e.rank_labels = <<>>
            ELSE ~e.is_bipolar /\ e.rank_labels = <<>>

\* C5: when the horizontal-scale detector matches a question that is
\* neither bipolar nor matrix, the options of the emitted record (before NPS
\* expansion) are exactly the detected scale tokens, in column order.
C5_ScaleOptionsExact ==
    \A k \in 1..Len(seg_log) :
        LET e == seg_log[k]
        IN  (/\ e.emitted /\ ~e.is_bipolar /\ e.rank_labels = <<>>
             /\ log_detects_scale(e))
               => e.options = detect_horizontal_scale(df, e.hdr)

(***************************************************************************)
(* Properties of the options artifact and the session endpoints            *)
(***************************************************************************)
\* the questions of session sid that resolve to no type
unresolved_questions(sid) ==
    {i \in 1..Len(sessions[sid].questions) :
        confirm_lookup(sessions[sid].confirmed_types,
                       sessions[sid].questions[i]) = ""}

\* C1: /generate writes the options artifact and the databook of a session
\* only if every parsed question of that session resolves to a non-empty
\* type, auto-detected or confirmed; with an unresolved question nothing is
\* written and no default type is applied.
C1_GenerateOnlyIfResolved ==
    \A sid \in SessionIds :
        (disk_options[sid] # None \/ disk_output[sid] # "absent")
           => (sid \in DOMAIN sessions /\ unresolved_questions(sid) = {})

\* every row that carries rank labels has type Matrix or Bipolar
ranked_rows_typed(rows) ==
    \A i \in 1..Len(rows) :
        rows[i].ranks # <<>> => rows[i].type \in {"Matrix", "Bipolar"}

\* C2: in every written options artifact (clean_and_convert's, or the one
\* _write_options_file writes after accepted /confirm-types requests), a
\* question whose rank labels are non-empty has type Matrix or Bipolar.
C2_RankedImpliesMatrixOrBipolar ==
    /\ ranked_rows_typed(options_file)
    /\ \A sid \in SessionIds :
          disk_options[sid] # None => ranked_rows_typed(disk_options[sid])

(***************************************************************************)
(* Round trip through the options artifact                                 *)
(***************************************************************************)
\* the Type cell clean_and_convert writes for question i
cc_written_type(i) ==
    IF auto_type_of(questions[i]) # "" THEN auto_type_of(questions[i])
    ELSE IF manual_type[i] = None THEN "" ELSE manual_type[i]

\* the Option cells clean_and_convert writes for question i
cc_written_options(i) ==
    [k \in 1..Len(questions[i].options) |-> clean_value(questions[i].options[k])]

round_trip_safe ==
    /\ \A i, j \in 1..Len(questions) :
          i # j => questions[i].q_text # questions[j].q_text
    /\ \A i \in 1..Len(questions) :
          /\ questions[i].q_text \notin STR_NA_VALUES
          /\ \A k \in 1..Len(questions[i].options) :
                cc_written_options(i)[k] \notin STR_NA_VALUES
          /\ \A k, l \in 1..Len(questions[i].options) :
                k # l => cc_written_options(i)[k] # cc_written_options(i)[l]

lower_header(j) == Strip(Lower(columns[j + 1]))

skipped_header(j) ==
    lower_header(j) \in exact_metadata \/ lower_header(j) \in exact_exclude

unnamed_header(j) == ~skipped_header(j) /\ Contains(lower_header(j), "unnamed")

main_header(j) == ~skipped_header(j) /\ ~Contains(lower_header(j), "unnamed")

\* the indices a sequence of column indices holds
indices_of(cols) == {cols[k] : k \in 1..Len(cols)}

\* C7 as stated: in every mapping the continuation columns are
\* main_col_idx+1, main_col_idx+2, ... and every handled column that is
\* neither a continuation nor a metadata column is the main column of a
\* mapping.
C7_ContiguousContinuations ==
    /\ \A q \in 1..Len(question_map) :
          \A k \in 1..Len(question_map[q].unnamed_cols) :
             question_map[q].unnamed_cols[k] = question_map[q].main_col_idx + k
    /\ \A j \in 0..(col_idx - 1) :
          main_header(j) => \E q \in 1..Len(question_map) :
                               question_map[q].main_col_idx = j

\* C7 amended: a handled column belongs to a mapping exactly as follows.  A
\* metadata or excluded column belongs to none and does not close the open
\* mapping; an unnamed column is a continuation of the mapping with the
\* nearest main column to its left (of none when there is no such column);
\* any other column is the main column of a new mapping.  Mappings are
\* numbered in column order and their continuation indices increase, so the
\* columns between a main column and any of its continuations are its
\* continuations or metadata/excluded columns.
C7_ContinuationsFollowOwner ==
    /\ \A q \in 1..Len(question_map) :
          LET m == question_map[q]
          IN  /\ m.main_col_idx < col_idx /\ main_header(m.main_col_idx)
              /\ m.question_text = columns[m.main_col_idx + 1]
              /\ q > 1 => question_map[q - 1].main_col_idx < m.main_col_idx
              /\ \A k \in 1..Len(m.unnamed_cols) :
                    /\ m.unnamed_cols[k] > m.main_col_idx
                    /\ k > 1 => m.unnamed_cols[k - 1] < m.unnamed_cols[k]
              /\ indices_of(m.unnamed_cols) =
                    {j \in (m.main_col_idx + 1)..(col_idx - 1) :
                        /\ unnamed_header(j)
                        /\ \A i \in (m.main_col_idx + 1)..j : ~main_header(i)}
    /\ \A j \in 0..(col_idx - 1) :
          main_header(j) <=> \E q \in 1..Len(question_map) :
                                question_map[q].main_col_idx = j

\* the whole header row was handled and some mapping owns a continuation
\* column that does not touch its main column
C7_Witness ==
    /\ columns # <<>> /\ col_idx = Len(columns)
    /\ Len(metadata_columns) >= 2
    /\ \E q \in 1..Len(question_map) :
          /\ question_map[q].unnamed_cols # <<>>
          /\ question_map[q].unnamed_cols[1] > question_map[q].main_col_idx + 1

(***************************************************************************)
(* Properties of the formulas                                              *)
(***************************************************************************)
\* nesting depth of s after its first i characters
depth_through(s, i) ==
    LET P == {j \in paren_positions(s) : j <= i}
    IN  Cardinality({j \in P : Ch(s, j) = "("})
           - Cardinality({j \in P : Ch(s, j) = ")"})

\* every parenthesis of s closes one that is open, and none stays open
balanced(s) ==
    /\ \A p \in paren_positions(s) : depth_through(s, p) >= 0
    /\ depth_through(s, Len(s)) = 0

\* nesting depth in front of position i
depth_before(s, i) == depth_through(s, i - 1)

\* position of the last occurrence of sub in s, 0 when there is none
last_index_of(s, sub) ==
    LET hits == {i \in 1..(Len(s) - Len(sub) + 1) :
                    SubSeq(s, i, i + Len(sub) - 1) = sub}
    IN  IF hits = {} THEN 0 ELSE CHOOSE m \in hits : \A k \in hits : k <= m

\* position where the parenthesis opened at position i closes, 0 if never
close_of(s, i) ==
    LET closes == {p \in paren_positions(s) :
                      p > i /\ depth_through(s, p) = depth_through(s, i) - 1}
    IN  IF closes = {} THEN 0 ELSE SetMin(closes)

\* "=NAME(...)": one function call that spans the whole formula
single_call(formula) ==
    LET opens == {i \in 1..Len(formula) : Ch(formula, i) = "("}
        first_open == SetMin(opens)
    IN  /\ StartsWith(formula, "=")
        /\ opens # {}
        /\ first_open > 2
        /\ TakeUpper(SubSeq(formula, 2, first_open - 1))
              = SubSeq(formula, 2, first_open - 1)
        /\ close_of(formula, first_open) = Len(formula)

\* the criterion of the last predicate of a cut formula: the text between
\* the last "," and the final ")", or between the last "=" and ")*1)"
criterion_of(formula) ==
    IF EndsWith(formula, ")*1)")
    THEN SubSeq(formula, last_index_of(formula, "=") + 1, Len(formula) - 4)
    ELSE SubSeq(formula, last_index_of(formula, ",") + 1, Len(formula) - 1)

\* absolute reference to the cell in column c, row r
abs_ref(c, r) == "$" \o get_excel_column_letter(c) \o "$" \o ToString(r)

\* the raw range of the cut an entry of cut_log was written for
cut_range_of(e) == raw_range(cut_blocks[e.cut].raw_col_letter)

\* C8: every formula the cuts engine makes from a count or N formula has
\* balanced parentheses, and its cut predicate (raw cut range, criterion)
\* lies inside a function call, in front of the final closing parenthesis
C8_PredicateInsideBalancedCall ==
    \A e \in cut_log :
        /\ balanced(e.v.s)
        /\ EndsWith(e.v.s, ")")
        /\ last_index_of(e.v.s, cut_range_of(e)) > 0
        /\ depth_before(e.v.s, last_index_of(e.v.s, cut_range_of(e))) >= 1

\* C9: every count or N formula create_databook writes is a single function
\* call that references a raw-data range and ends with its closing
\* parenthesis
C9_SingleCallOverRawRange ==
    \A e \in synth_log :
        /\ single_call(e.formula)
        /\ Contains(e.formula, "'Raw Data'!")
        /\ ~Contains(e.formula, "(>")

\* C10 as stated: in every block kind the criterion of a cut formula is the
\* cut's dropdown cell, row 1 of the cut's start column
C10_CriterionIsDropdown ==
    \A e \in cut_log :
        criterion_of(e.v.s) = abs_ref(cut_blocks[e.cut].start_col, 1)

\* the block whose rows hold row r
blocks_at(r) ==
    {b \in 1..Len(blocks) :
        blocks[b].header_row <= r /\ r <= blocks[b].n_row}

\* C10 amended: matrix and bipolar formulas take the cut's dropdown cell as
\* criterion; a flat formula in the cut's i-th category column takes the
\* header cell of its own column, which holds the i-th category
C10_CriterionByBlockKind ==
    /\ \A k \in 1..Len(cut_blocks) :
          cell(ws, 1, cut_blocks[k].start_col) = StrCell("<>")
    /\ \A e \in cut_log :
          LET cb == cut_blocks[e.cut]
          IN  IF e.family \in {"matrix", "bipolar"}
              THEN criterion_of(e.v.s) = abs_ref(cb.start_col, 1)
              ELSE /\ e.c \in cb.start_col..(cb.start_col + cb.num_cat - 1)
                   /\ \E b \in blocks_at(e.r) :
                         /\ criterion_of(e.v.s)
                               = abs_ref(e.c, blocks[b].header_row)
                         /\ cell(ws, blocks[b].header_row, e.c)
                               = StrCell(cb.categories[e.c - cb.start_col + 1])
                   /\ criterion_of(e.v.s) # abs_ref(cb.start_col, 1)

\* two cuts were applied to a workbook holding a matrix or bipolar block and
\* a flat block
C10_Witness ==
    /\ book_pc = "done"
    /\ Len(cut_blocks) = 2
    /\ \E e \in cut_log : e.family \in {"matrix", "bipolar"} /\ e.cut = 2
    /\ \E e \in cut_log : e.family = "flat" /\ e.cut = 2 /\ e.role = "n"
    /\ \E e \in cut_log :
          e.family = "flat" /\ e.c > cut_blocks[e.cut].start_col

(***************************************************************************)
(* Properties of the cut layout                                            *)
(***************************************************************************)
\* columns of the table create_databook writes for a question
table_width(q) ==
    IF q.is_bipolar THEN 6
    ELSE IF q.is_matrix THEN 2 * Len(q.rank_labels) + 2
    ELSE 3

\* the widest question table of the workbook
widest_table ==
    CHOOSE w \in {table_width(analysis[p]) : p \in 1..Len(analysis)} :
        \A p \in 1..Len(analysis) : table_width(analysis[p]) <= w

\* columns the cuts engine fills for one discovered block and one cut
columns_needed(b, cb) ==
    IF b.is_matrix THEN 2 * b.num_rating_cols + 1
    ELSE IF b.is_bipolar THEN 5
    ELSE 2 * cb.num_cat

table_height(q) ==
    IF q.is_bipolar THEN Len(q.rows) + 5
    ELSE IF q.is_matrix THEN Len(q.attributes) + 5
    ELSE Len(q.options) + 6

\* header row of the table of question p
RECURSIVE header_row_of(_)
header_row_of(p) ==
    IF p = 1 THEN 8 ELSE header_row_of(p - 1) + table_height(analysis[p - 1])

\* the Single / Multiple questions of the workbook
flat_questions ==
    {p \in 1..Len(analysis) :
        /\ ~analysis[p].is_matrix
        /\ ~analysis[p].is_bipolar
        /\ \/ Contains(analysis[p].question_type, "single")
           \/ Contains(analysis[p].question_type, "multiple")
           \/ Contains(analysis[p].question_type, "multi-select")}

\* C12: once the cuts are applied, a cut with k categories has given every
\* Single / Multiple table exactly 2k columns from the cut's start column:
\* k count columns then k percentage columns, headed c1..ck, c1..ck; every
\* option row and the N row have a formula in each count column, every
\* option row a percentage in each percentage column
C12_FlatCutColumns ==
    (book_pc = "done" /\ Len(cuts) > 0) =>
    \A p \in flat_questions : \A k \in 1..Len(cut_blocks) :
        LET cb == cut_blocks[k]
            hdr == header_row_of(p)
            n_row == hdr + Len(analysis[p].options) + 1
            filled == {x[2] : x \in {y \in DOMAIN ws :
                          /\ hdr <= y[1] /\ y[1] <= n_row
                          /\ cb.start_col <= y[2] /\ y[2] <= cb.end_col
                          /\ ws[y].t # "none"}}
        IN  /\ cb.num_cat = Len(cuts[k].categories)
            /\ filled = cb.start_col..(cb.start_col + 2 * cb.num_cat - 1)
            /\ \A i \in 1..cb.num_cat :
                  /\ cell(ws, hdr, cb.start_col + i - 1)
                        = StrCell(cuts[k].categories[i])
                  /\ cell(ws, hdr, cb.start_col + cb.num_cat + i - 1)
                        = StrCell(cuts[k].categories[i])
                  /\ \A r \in (hdr + 1)..n_row :
                        StartsWith(cell(ws, r, cb.start_col + i - 1).s, "=")
                  /\ \A r \in (hdr + 1)..(n_row - 1) :
                        StartsWith(cell(ws, r, cb.start_col + cb.num_cat + i - 1).s,
                                   "=IFERROR(")

\* the question types analyze_survey and create_databook know
known_type(q_type) ==
    \/ q_type \in {"bipolar", "single", "single-select", "multiple",
                   "multi-select", "multiple select"}
    \/ Contains(q_type, "matrix")

\* the table cells of question p are those of the same question typed Single
written_as_single(p) ==
    LET q == analysis[p]
        hdr == header_row_of(p)
    IN  \A r \in hdr..(hdr + Len(q.options) + 1) : \A c \in 1..3 :
            (r <= hdr + Len(q.options) \/ c <= 2) =>
               cell(ws, r, c)
                  = flat_cell([q EXCEPT !.question_type = "single"], hdr, r, c)

\* C13: a question whose type is outside the known set is written as a
\* Single question (single-select count formulas, SUM N row) and, once the
\* cuts are applied, has the cut columns of a Single block
C13_UnknownTypeAsSingle ==
    \A p \in 1..q_pos :
        ~known_type(analysis[p].question_type) =>
           /\ written_as_single(p)
           /\ (book_pc = "done" /\ Len(cuts) > 0) =>
                 \A k \in 1..Len(cut_blocks) :
                    cell(ws, header_row_of(p), cut_blocks[k].start_col)
                       = StrCell(cuts[k].categories[1])

(***************************************************************************)
(* Properties of the entry points' exit paths                              *)
(***************************************************************************)
\* the run has left its entry point, by returning or by an exception
exited == run_pc \in {"returned", "raised"}

\* C14: on every exit path of main() and of /generate, exceptions included,
\* no temporary cuts template is left on disk, and a failed /upload leaves
\* no session directory behind.
C14_TempFilesRemovedOnEveryExit ==
    exited =>
       /\ temp_files = {}
       /\ (run_caller = "upload" /\ run_pc = "raised") => ~run_dir

\* C15: when a run of main() or /generate fails after it has written the
\* output workbook, no file written by that run remains at the output path.
C15_FailedRunLeavesNoOutput ==
    (run_caller \in {"main", "generate"} /\ run_pc = "raised") =>
       out_file \notin {"base", "cut"}

(***************************************************************************)
(* Properties of the loaded configuration                                  *)
(***************************************************************************)
\* the direct call of the named function has returned
returned(name) == fn_name = name /\ fn_pc = "returned"

\* C16: every question that load_options_file loads as Bipolar has one pole
\* pair per option, and both poles of every pair are non-empty strings (an
\* option without " or " never yields a pair with an empty pole).
C16_BipolarPolePairsNonEmpty ==
    returned("load_options_file") =>
       \A i \in 1..Len(fn_ret) :
           LET entry == fn_ret[i]
           IN  entry.type = "bipolar" =>
                  /\ Len(entry.pole_pairs) = Len(entry.options)
                  /\ \A k \in 1..Len(entry.pole_pairs) :
                        /\ Len(entry.pole_pairs[k]) = 2
                        /\ entry.pole_pairs[k][1] # ""
                        /\ entry.pole_pairs[k][2] # ""
\* the phrases the specification names as implying a single or a multiple
\* selection, lower case
SinglePhrases == {"select one", "single choice"}
MultiPhrases  == {"select all", "multiple choice"}

\* the text contains one of the phrases, whatever the case of its letters
has_phrase(text, phrases) == \E p \in phrases : Contains(Lower(text), p)

\* C17: for a question that is neither bipolar nor matrix, get_auto_type
\* returns Single when the text contains a single-selection phrase, Multiple
\* when it contains a multi-selection phrase (and no single-selection one),
\* whatever the case of the letters.
C17_AutoTypeByPhrase ==
    (returned("get_auto_type") /\ ~fn_args[4] /\ fn_args[2] = <<>>) =>
       /\ has_phrase(fn_args[1], SinglePhrases) => fn_ret = "Single"
       /\ (has_phrase(fn_args[1], MultiPhrases) /\ ~has_phrase(fn_args[1], SinglePhrases))
             => fn_ret = "Multiple"
\* the case a question text of the NPS inputs was built from
nps_case(text) == CHOOSE c \in NpsCases : c.text = text

\* the option expected at an endpoint with the meaning stated for it
endpoint_option(num, meaning) ==
    IF meaning = None THEN num ELSE num \o "- " \o meaning

\* C18: for a text with a 1-10 / 0-10 scale phrase expand_nps_if_needed
\* returns exactly 10 options; position 1 (10) is '1- <text>' ('10- <text>')
\* with the meaning stated for that endpoint alone, the bare numeral when
\* none is stated; positions 2..9 are bare numerals; the options collected
\* from the grid play no part.
C18_NpsTenOptions ==
    (returned("expand_nps_if_needed") /\ nps_case(fn_args[1]).scale) =>
       /\ Len(fn_ret) = 10
       /\ fn_ret[1] = endpoint_option("1", nps_case(fn_args[1]).m1)
       /\ fn_ret[10] = endpoint_option("10", nps_case(fn_args[1]).m10)
       /\ \A i \in 2..9 : fn_ret[i] = ToString(i)
\* the commas of s that no pair of parentheses encloses
outer_commas(s) == {i \in 1..Len(s) : Ch(s, i) = "," /\ depth_before(s, i) = 0}

\* s cut at its outer commas, the pieces trimmed, the empty ones dropped
outer_tokens(s) ==
    LET parts == pieces(s, outer_commas(s))
    IN  SelectSeq([k \in 1..Len(parts) |-> Strip(parts[k])], LAMBDA p : p # "")

\* C19: for a cell whose parentheses are balanced, split_multi_select_options
\* splits on exactly the commas that no pair of parentheses encloses (an
\* enclosed comma is never a split point, a comma outside all parentheses
\* always is), and the tokens are trimmed and non-empty.
C19_SplitsOnOuterCommas ==
    (returned("split_multi_select_options") /\ balanced(fn_args[1])) =>
       /\ fn_ret = outer_tokens(fn_args[1])
       /\ \A k \in 1..Len(fn_ret) : fn_ret[k] # "" /\ Strip(fn_ret[k]) = fn_ret[k]
\* the percentages of a tabulator's result, each with the base it was
\* computed on
reported_percentages ==
    IF returned("process_matrix")
    THEN {[percentage |-> fn_ret.data[a].cells[r].percentage, base |-> fn_ret.base] :
             a \in 1..Len(fn_args[3]), r \in 1..Len(fn_args[4])}
    ELSE IF returned("process_single_select") \/ returned("process_multi_select")
    THEN {[percentage |-> fn_ret[k].percentage, base |-> fn_ret[k].base] :
             k \in 1..Len(fn_ret)}
    ELSE {}

\* C20: in the single-select, the multi-select and the matrix tabulator a
\* percentage computed on a base of 0 is 0.0, whatever the input column.
C20_ZeroBaseZeroPercentage ==
    \A p \in reported_percentages :
        p.base = 0 => p.percentage = [kind |-> "float", tenths |-> 0]

\* an all-empty column of respondents tabulated against the question's
\* options: the rows are reported on a base of 0
C20_Witness ==
    /\ returned("process_single_select")
    /\ Len(fn_args[1]) = MaxRespondents
    /\ \A i \in 1..Len(fn_args[1]) : fn_args[1][i] = NaN
    /\ Len(fn_ret) = 2
    /\ fn_ret[1].base = 0
(***************************************************************************)
(* Properties of the bipolar tabulator                                     *)
(***************************************************************************)
\* no sub-header of the question's columns names the dimension opt, neither
\* exactly nor, letter case aside, as a part of it or with it as a part
no_matching_column(sub_headers, opt) ==
    \A c \in 1..Len(sub_headers) :
        sub_headers[c] # NaN =>
           LET key == dimension_of(sub_headers[c])
           IN  /\ key # opt
               /\ ~Contains(Lower(key), Lower(opt))
               /\ ~Contains(Lower(opt), Lower(key))

\* the cell create_databook writes for row k, column c of the bipolar table
\* built from the rows process_bipolar returned
rendered_bipolar(k, c) == bipolar_cell([rows |-> fn_ret.rows], 8, 8 + k, c)

\* C21: process_bipolar returns one row per declared dimension; a dimension
\* no sub-header matches has no column, pole counts 0 and N 0, and its row of
\* the table holds the dimension and literal zeros; every other dimension
\* has a column, the counts of its poles and its N taken from that column,
\* and count formulas in its row.
C21_UnmatchedDimensionIsZeroRow ==
    returned("process_bipolar") =>
       /\ Len(fn_ret.rows) = Len(fn_args[3])
       /\ \A k \in 1..Len(fn_ret.rows) :
             LET brow  == fn_ret.rows[k]
                 frame == fn_args[2]
                 cells == [i \in 1..Len(frame) |-> frame[i][brow.col_idx + 1]]
             IN  /\ brow.option = fn_args[3][k]
                 /\ rendered_bipolar(k, 1) = StrCell(fn_args[3][k])
                 /\ IF no_matching_column(fn_args[1], fn_args[3][k])
                    THEN /\ brow.col_idx = -1
                         /\ brow.count_p1 = 0 /\ brow.count_p2 = 0 /\ brow.n = 0
                         /\ \A c \in 2..4 : rendered_bipolar(k, c) = IntCell(0)
                    ELSE /\ brow.col_idx \in 0..(Len(fn_args[1]) - 1)
                         /\ brow.count_p1 =
                               Cardinality({i \in 1..Len(frame) : cells[i] = brow.pole_1})
                         /\ brow.count_p2 =
                               Cardinality({i \in 1..Len(frame) : cells[i] = brow.pole_2})
                         /\ brow.n = Cardinality({i \in 1..Len(frame) :
                                        cells[i] \notin {NaN, " "}})
                         /\ \A c \in 2..4 : StartsWith(rendered_bipolar(k, c).s, "=COUNT")

\* a question whose second dimension has no column while the first one is
\* counted on answered rows
C21_Witness ==
    /\ returned("process_bipolar")
    /\ no_matching_column(fn_args[1], fn_args[3][2])
    /\ ~no_matching_column(fn_args[1], fn_args[3][1])
    /\ fn_ret.rows[1].count_p1 > 0
    /\ fn_ret.rows[2].col_idx = -1
(***************************************************************************)
(* Properties of block discovery                                           *)
(***************************************************************************)
\* title row of the table of question p
title_row_of(p) == header_row_of(p) - 2

\* the scan of find_question_blocks started on the title row of question p
\* finds the header shape and a closing row
well_formed(p) ==
    /\ cell(ws, header_row_of(p), 1) = StrCell("Response Option")
    /\ scan_block(ws, header_row_of(p) + 1, max_row(ws),
                  analysis[p].is_matrix \/ analysis[p].is_bipolar, 0) # 0

\* row r carries a "Q" label, and the scan started on it finds no header
\* shape two rows below or no closing row
shapeless(r) ==
    /\ is_str(cell(ws, r, 1))
    /\ StartsWith(Strip(cell(ws, r, 1).s), "Q")
    /\ LET q_type == q_type_of(cell_text(cell(ws, r + 1, 1)))
       IN  \/ cell(ws, r + 2, 1) # StrCell("Response Option")
           \/ scan_block(ws, r + 3, max_row(ws),
                         Contains(q_type, "matrix") \/ Contains(q_type, "bipolar"), 0) = 0

\* C22: once the blocks are discovered, a "Q" row without the header shape
\* or without a closing row has no block, and every well-formed block after
\* such a row is discovered and, once the cuts are applied, has the header
\* cells of every cut.
C22_LaterBlocksStillCut ==
    (book_pc \in {"cuts", "done"} /\ Len(cuts) > 0) =>
       /\ \A r \in 6..max_row(ws) :
             shapeless(r) => \A b \in 1..Len(blocks) : blocks[b].header_row # r + 2
       /\ \A p \in 1..Len(analysis) :
             (well_formed(p) /\ \E r \in 6..(title_row_of(p) - 1) : shapeless(r)) =>
                /\ \E b \in 1..Len(blocks) : blocks[b].header_row = header_row_of(p)
                /\ book_pc = "done" =>
                      \A k \in 1..Len(cut_blocks) :
                         is_str(cell(ws, header_row_of(p), cut_blocks[k].start_col))

\* the fields of a question record that both scanners build
scanned_fields(q) ==
    [q_text      |-> q.q_text,
     options     |-> q.options,
     rank_labels |-> q.rank_labels,
     is_bipolar  |-> q.is_bipolar]

\* C23: for every input grid, _parse_questions_from_file returns the same
\* ordered list of question records (question text, options, rank labels,
\* bipolar flag) as the list clean_and_convert has built when it reaches its
\* type-validation step.
C23_ApiParserAgreesWithStep1 ==
    pc = "types" =>
       LET parsed == parse_questions_from_file(df)
       IN  /\ Len(parsed) = Len(questions)
           /\ \A i \in 1..Len(questions) :
                 scanned_fields(parsed[i]) = scanned_fields(questions[i])

\* both scanners have produced a bipolar record followed by a flat one
C23_Witness ==
    /\ pc = "types"
    /\ Len(questions) = 2
    /\ questions[1].is_bipolar
    /\ ~questions[2].is_bipolar
    /\ Len(parse_questions_from_file(df)) = 2

\* the block of question p with the rows and flags create_databook used
written_block(p) ==
    LET q == analysis[p]
        hdr == header_row_of(p)
        last == IF q.is_bipolar THEN hdr + Len(q.rows)
                ELSE IF q.is_matrix THEN hdr + Len(q.attributes)
                ELSE hdr + Len(q.options)
    IN  [header_row       |-> hdr,
         first_option_row |-> hdr + 1,
         last_option_row  |-> last,
         n_row            |-> IF q.is_matrix \/ q.is_bipolar THEN last
                              ELSE last + 1,
         is_matrix        |-> q.is_matrix,
         is_bipolar       |-> q.is_bipolar]

\* the rows and flags of a discovered block
block_rows(b) ==
    [header_row       |-> b.header_row,
     first_option_row |-> b.first_option_row,
     last_option_row  |-> b.last_option_row,
     n_row            |-> b.n_row,
     is_matrix        |-> b.is_matrix,
     is_bipolar       |-> b.is_bipolar]

\* C24: for every databook written by create_databook, find_question_blocks
\* returns exactly one block per emitted question, in order, whose
\* header_row, first_option_row, last_option_row, n_row and type flags are
\* those create_databook used, whatever the option and attribute labels.
C24_BlocksMatchWrittenTables ==
    (book_pc \in {"cuts", "done"} /\ Len(cuts) > 0) =>
       /\ Len(blocks) = Len(analysis)
       /\ \A p \in 1..Len(analysis) :
             p <= Len(blocks) => block_rows(blocks[p]) = written_block(p)

(***************************************************************************)
(* Properties of the session endpoints                                     *)
(***************************************************************************)
\* what a session owns: its store entry and its files on disk
session_state == <<sessions, session_dirs, disk_options, disk_output>>

\* user_id is not the uploader of the stored session
non_owner(user_id, session_id) ==
    /\ session_id \in DOMAIN sessions
    /\ sessions[session_id].user_id # user_id

\* a step of one of the three endpoints that take a session id
session_request(user_id, session_id) ==
    \/ \E question_types \in ConfirmRequests :
          ConfirmTypes(user_id, session_id, question_types)
    \/ \E has_cuts \in BOOLEAN : Generate(user_id, session_id, has_cuts)
    \/ CleanupSession(user_id, session_id)

\* C25: a /confirm-types, /generate or DELETE /session/{id} request by a
\* user other than the uploader is answered 403 and leaves the store entry,
\* its confirmed types and the session's files unchanged.
C25_NonOwnerRejected ==
    [][\A user_id \in Users, session_id \in SessionIds :
          (non_owner(user_id, session_id)
              /\ session_request(user_id, session_id)) =>
             /\ response'.status = 403
             /\ UNCHANGED session_state]_vars

\* a non-owner's DELETE was answered 403 while the owner's session holds
\* confirmed types and a generated databook
C25_Witness ==
    /\ response = [op |-> "cleanup", status |-> 403]
    /\ \E session_id \in DOMAIN sessions :
          /\ sessions[session_id].confirmed_types # EmptyDict
          /\ disk_output[session_id] # "absent"
          /\ session_id \in session_dirs

\* C26: once DELETE has succeeded the id is absent from the store, every
\* later /confirm-types, /generate or DELETE on an absent id is answered 404
\* and changes nothing, and no operation puts an id back that was handed out
\* before: an id enters the store only by a successful /upload drawing a
\* fresh id and leaves it only by a successful DELETE.
C26_DeletedIdStaysAbsent ==
    /\ [](DOMAIN sessions \subseteq used_ids)
    /\ [][/\ used_ids \subseteq used_ids'
          /\ \A session_id \in SessionIds :
                /\ (session_id \notin DOMAIN sessions
                       /\ session_id \in DOMAIN sessions') =>
                      /\ session_id \notin used_ids
                      /\ response' = [op |-> "upload", status |-> 200]
                /\ (session_id \in DOMAIN sessions
                       /\ session_id \notin DOMAIN sessions') =>
                      response' = [op |-> "cleanup", status |-> 200]
                /\ \A user_id \in Users :
                      /\ (session_id \notin DOMAIN sessions
                             /\ session_request(user_id, session_id)) =>
                            /\ response'.status = 404
                            /\ UNCHANGED session_state
                      /\ (sessions # sessions'
                             /\ CleanupSession(user_id, session_id)) =>
                            session_id \notin DOMAIN sessions']_vars

\* a DELETE has just succeeded: its id was handed out, is gone from the
\* store and from disk, and another session is still stored
C26_Witness ==
    /\ response = [op |-> "cleanup", status |-> 200]
    /\ \E session_id \in used_ids \ DOMAIN sessions :
          session_id \notin session_dirs
    /\ DOMAIN sessions # {}

\* C27: a /confirm-types request that is rejected (404, 403, or 400 because
\* a question would still have no type) leaves the stored confirmed types
\* unchanged; they change only when a request is accepted.
C27_RejectedConfirmKeepsTypes ==
    [][/\ (response'.op = "confirm" /\ response'.status \in {400, 403, 404}) =>
             sessions' = sessions
       /\ \A session_id \in DOMAIN sessions \cap DOMAIN sessions' :
             sessions'[session_id].confirmed_types
                   # sessions[session_id].confirmed_types =>
                response' = [op |-> "confirm", status |-> 200]]_vars

\* a request was answered 400 for a session that keeps the types an earlier
\* accepted request stored
C27_Witness ==
    /\ response = [op |-> "confirm", status |-> 400]
    /\ \E session_id \in DOMAIN sessions :
          sessions[session_id].confirmed_types # EmptyDict

\* C28: writing a cuts list with create_cuts_template_from_config or
\* _build_cuts_template and reading the template back with
\* load_cuts_from_template returns one cut per supplied cut, in the supplied
\* order, each with the same raw column index and the same complete list of
\* categories, whatever the cut indices and the number of categories.
C28_CutsTemplateRoundTrip ==
    returned("load_cuts_from_template") =>
       \A cuts_config \in CutConfigs :
          fn_args[1] \in {create_cuts_template_from_config(cuts_config),
                          build_cuts_template(cuts_config)} =>
             /\ Len(fn_ret) = Len(cuts_config)
             /\ \A i \in 1..Len(cuts_config) :
                   i <= Len(fn_ret) =>
                      /\ fn_ret[i].raw_col_index = cuts_config[i].raw_col_index
                      /\ fn_ret[i].categories = cuts_config[i].categories

(***************************************************************************)
(* Properties of the scanning loop                                         *)
(***************************************************************************)
\* the rows of the grid whose first cell opens a question
header_rows_of_grid ==
    {r \in 0..(Len(df) - 1) : is_question_row(first_cell_of(df, r))}

\* the rows the loop has handled as a question header, in handling order
handled_headers == [k \in 1..Len(seg_log) |-> seg_log[k].hdr]

\* C29: the row-scanning loop terminates: every iteration moves the row
\* index strictly forward (the bipolar skip-ahead included) and never past
\* the end of the grid, so there is at most one iteration per row; once the
\* loop is left every header row of the grid has been handled as a header
\* exactly once, in row order.
C29_ScanTerminates ==
    /\ [][(pc = "scan" /\ pc' = "scan") =>
             (idx' > idx /\ idx' <= Len(df))]_vars
    /\ [](pc # "scan" =>
             /\ {handled_headers[k] : k \in 1..Len(seg_log)} = header_rows_of_grid
             /\ \A j, k \in 1..Len(seg_log) :
                   j < k => handled_headers[j] < handled_headers[k])
    /\ <>(pc # "scan")

\* the loop is left after a bipolar skip-ahead over more than one row that
\* stopped on a second header
C29_Witness ==
    /\ pc = "types"
    /\ Len(seg_log) = 2
    /\ seg_log[1].is_bipolar
    /\ seg_log[2].hdr > seg_log[1].hdr + 1

\* C30: every option and every rank label of every emitted question record
\* is a non-empty string after trimming, for every grid, grids with
\* whitespace-only cells included.
C30_LabelsNonEmpty ==
    \A i \in 1..Len(questions) :
       /\ \A k \in 1..Len(questions[i].options) :
             Strip(questions[i].options[k]) # ""
       /\ \A k \in 1..Len(questions[i].rank_labels) :
             Strip(questions[i].rank_labels[k]) # ""

====
